---- MODULE Spec2Model ----
(***************************************************************************)
(* A model of the digest core of lc-crypto: the SHA-2 engine               *)
(* (lc-crypto-digest/src/raw/sha2.rs) and its top-level driver, the raw    *)
(* SHA-1 engine, the legacy SHA-1/SHA-2 digests and HMAC, and the Keccak   *)
(* engine.                                                                 *)
(*                                                                         *)
(* Machine words are kept at their width.  A u32 is the pair of its 16-bit *)
(* limbs and a u64 the four of them, most significant limb first, so that  *)
(* every intermediate value stays inside TLC's integers.  Bytes are        *)
(* integers in 0..255 and byte strings are sequences of them.  A panic is  *)
(* the field panic = TRUE of the object it interrupted, whose other fields *)
(* hold what the code had stored when it panicked.                         *)
(***************************************************************************)
EXTENDS Integers, Sequences, FiniteSets, TLC

(***************************************************************************)
(* Bitwise operators on bytes, 16-bit limbs and words.                     *)
(***************************************************************************)
NibAnd ==
  [a \in 0..15 |-> [b \in 0..15 |->
      ((a % 2) * (b % 2)) + 2 * (((a \div 2) % 2) * ((b \div 2) % 2))
      + 4 * (((a \div 4) % 2) * ((b \div 4) % 2)) + 8 * ((a \div 8) * (b \div 8))]]

ByteAndTable ==
  [a \in 0..255 |-> [b \in 0..255 |->
      16 * NibAnd[a \div 16][b \div 16] + NibAnd[a % 16][b % 16]]]

ByteAnd(a, b) == ByteAndTable[a][b]

ByteXor(a, b) == a + b - 2 * ByteAndTable[a][b]

ByteOr(a, b) == a + b - ByteAndTable[a][b]

And16(a, b) == 256 * ByteAndTable[a \div 256][b \div 256] + ByteAndTable[a % 256][b % 256]

Xor16(a, b) == a + b - 2 * And16(a, b)

\* A word's operands are evaluated once (the bound p, q), and the result is a
\* tuple of limbs.
BitAnd(a, b) ==
  CHOOSE r \in {LET f(i) == And16(p[i], q[i])
                IN  IF Len(p) = 2 THEN <<f(1), f(2)>> ELSE <<f(1), f(2), f(3), f(4)>>
                : p \in {a}, q \in {b}} : TRUE

BitXor(a, b) ==
  CHOOSE r \in {LET f(i) == Xor16(p[i], q[i])
                IN  IF Len(p) = 2 THEN <<f(1), f(2)>> ELSE <<f(1), f(2), f(3), f(4)>>
                : p \in {a}, q \in {b}} : TRUE

Not(a) ==
  CHOOSE r \in {LET f(i) == 65535 - p[i]
                IN  IF Len(p) = 2 THEN <<f(1), f(2)>> ELSE <<f(1), f(2), f(3), f(4)>>
                : p \in {a}} : TRUE

\* The limb of significance k (0 the lowest) of word p, 0 outside the word.
Limb(p, k) == IF 0 <= k /\ k < Len(p) THEN p[Len(p) - k] ELSE 0

rotate_right(a, n) ==
  CHOOSE r \in {LET L == Len(p)
                    q == n \div 16
                    P == 2 ^ (n % 16)
                    f(k) == (Limb(p, (k + q) % L) \div P)
                            + (Limb(p, (k + q + 1) % L) % P) * (65536 \div P)
                IN  IF L = 2 THEN <<f(1), f(0)>> ELSE <<f(3), f(2), f(1), f(0)>>
                : p \in {a}} : TRUE

rotate_left(a, n) == rotate_right(a, (16 * Len(a) - (n % (16 * Len(a)))) % (16 * Len(a)))

\* w >> n, with n below the width.
Shr(a, n) ==
  CHOOSE r \in {LET L == Len(p)
                    q == n \div 16
                    P == 2 ^ (n % 16)
                    f(k) == (Limb(p, k + q) \div P)
                            + (Limb(p, k + q + 1) % P) * (65536 \div P)
                IN  IF L = 2 THEN <<f(1), f(0)>> ELSE <<f(3), f(2), f(1), f(0)>>
                : p \in {a}} : TRUE

RECURSIVE Carry(_, _, _)
\* The carry into the limb of significance k of p + q.
Carry(p, q, k) ==
  IF k = 0 THEN 0 ELSE (Limb(p, k - 1) + Limb(q, k - 1) + Carry(p, q, k - 1)) \div 65536

\* Addition modulo 2^32 or 2^64.
wrapping_add(a, b) ==
  CHOOSE r \in {LET f(k) == (Limb(p, k) + Limb(q, k) + Carry(p, q, k)) % 65536
                IN  IF Len(p) = 2 THEN <<f(1), f(0)>> ELSE <<f(3), f(2), f(1), f(0)>>
                : p \in {a}, q \in {b}} : TRUE

\* 4 or 8 big-endian bytes to a word.
from_be_bytes(arr) ==
  LET f(i) == 256 * arr[2 * i - 1] + arr[2 * i]
  IN  IF Len(arr) = 4 THEN <<f(1), f(2)>> ELSE <<f(1), f(2), f(3), f(4)>>

to_be_bytes(w) ==
  IF Len(w) = 2
  THEN <<w[1] \div 256, w[1] % 256, w[2] \div 256, w[2] % 256>>
  ELSE <<w[1] \div 256, w[1] % 256, w[2] \div 256, w[2] % 256,
         w[3] \div 256, w[3] % 256, w[4] \div 256, w[4] % 256>>

\* u64::to_be_bytes of a count; the model's counts stay below 2^31.
U64_to_be_bytes(n) ==
  <<0, 0, 0, 0, (n \div 16777216) % 256, (n \div 65536) % 256, (n \div 256) % 256, n % 256>>

RECURSIVE Concat(_)
\* The concatenation of a sequence of byte strings.
Concat(ss) == IF ss = <<>> THEN <<>> ELSE Head(ss) \o Concat(Tail(ss))

Zeroed(n) == [i \in 1..n |-> 0]

(***************************************************************************)
(* ByteArray (lc-crypto-primitives/src/traits.rs).                         *)
(***************************************************************************)
\* ByteArray::extend: the assertion, then copy_from_slice into the whole
\* zeroed array, which panics unless the two lengths are equal.
ByteArray_extend(LEN, sl) ==
  IF Len(sl) > LEN THEN [ok |-> FALSE, val |-> <<>>]
  ELSE IF Len(sl) # LEN THEN [ok |-> FALSE, val |-> <<>>]
  ELSE [ok |-> TRUE, val |-> sl]

\* ByteArray::truncate
ByteArray_truncate(LEN, sl) ==
  IF LEN > Len(sl) THEN [ok |-> FALSE, val |-> <<>>]
  ELSE [ok |-> TRUE, val |-> SubSeq(sl, 1, LEN)]

\* ByteArray::array_chunks: the full LEN-byte chunks of sl, and the remainder.
array_chunks(LEN, sl) ==
  LET rem  == Len(sl) % LEN
      tlen == Len(sl) - rem
  IN  [chunks |-> [k \in 1..(tlen \div LEN) |-> SubSeq(sl, (k - 1) * LEN + 1, k * LEN)],
       remainder |-> SubSeq(sl, tlen + 1, Len(sl))]

(***************************************************************************)
(* The SHA-2 engine (lc-crypto-digest/src/raw/sha2.rs), generic over the   *)
(* word W, "u32" or "u64".                                                 *)
(***************************************************************************)
\* Sha2Word for u32: ROUND_CONSTANTS, each word as its two 16-bit limbs <<high, low>>.
ROUND_CONSTANTS_u32 ==
  << <<\H428a, \H2f98>>, <<\H7137, \H4491>>, <<\Hb5c0, \Hfbcf>>, <<\He9b5, \Hdba5>>,
     <<\H3956, \Hc25b>>, <<\H59f1, \H11f1>>, <<\H923f, \H82a4>>, <<\Hab1c, \H5ed5>>,
     <<\Hd807, \Haa98>>, <<\H1283, \H5b01>>, <<\H2431, \H85be>>, <<\H550c, \H7dc3>>,
     <<\H72be, \H5d74>>, <<\H80de, \Hb1fe>>, <<\H9bdc, \H06a7>>, <<\Hc19b, \Hf174>>,
     <<\He49b, \H69c1>>, <<\Hefbe, \H4786>>, <<\H0fc1, \H9dc6>>, <<\H240c, \Ha1cc>>,
     <<\H2de9, \H2c6f>>, <<\H4a74, \H84aa>>, <<\H5cb0, \Ha9dc>>, <<\H76f9, \H88da>>,
     <<\H983e, \H5152>>, <<\Ha831, \Hc66d>>, <<\Hb003, \H27c8>>, <<\Hbf59, \H7fc7>>,
     <<\Hc6e0, \H0bf3>>, <<\Hd5a7, \H9147>>, <<\H06ca, \H6351>>, <<\H1429, \H2967>>,
     <<\H27b7, \H0a85>>, <<\H2e1b, \H2138>>, <<\H4d2c, \H6dfc>>, <<\H5338, \H0d13>>,
     <<\H650a, \H7354>>, <<\H766a, \H0abb>>, <<\H81c2, \Hc92e>>, <<\H9272, \H2c85>>,
     <<\Ha2bf, \He8a1>>, <<\Ha81a, \H664b>>, <<\Hc24b, \H8b70>>, <<\Hc76c, \H51a3>>,
     <<\Hd192, \He819>>, <<\Hd699, \H0624>>, <<\Hf40e, \H3585>>, <<\H106a, \Ha070>>,
     <<\H19a4, \Hc116>>, <<\H1e37, \H6c08>>, <<\H2748, \H774c>>, <<\H34b0, \Hbcb5>>,
     <<\H391c, \H0cb3>>, <<\H4ed8, \Haa4a>>, <<\H5b9c, \Hca4f>>, <<\H682e, \H6ff3>>,
     <<\H748f, \H82ee>>, <<\H78a5, \H636f>>, <<\H84c8, \H7814>>, <<\H8cc7, \H0208>>,
     <<\H90be, \Hfffa>>, <<\Ha450, \H6ceb>>, <<\Hbef9, \Ha3f7>>, <<\Hc671, \H78f2>> >>

\* Sha2Word for u64: ROUND_CONSTANTS, each word as its four 16-bit limbs, high limb first.
ROUND_CONSTANTS_u64 ==
  << <<\H428a, \H2f98, \Hd728, \Hae22>>, <<\H7137, \H4491, \H23ef, \H65cd>>,
     <<\Hb5c0, \Hfbcf, \Hec4d, \H3b2f>>, <<\He9b5, \Hdba5, \H8189, \Hdbbc>>,
     <<\H3956, \Hc25b, \Hf348, \Hb538>>, <<\H59f1, \H11f1, \Hb605, \Hd019>>,
     <<\H923f, \H82a4, \Haf19, \H4f9b>>, <<\Hab1c, \H5ed5, \Hda6d, \H8118>>,
     <<\Hd807, \Haa98, \Ha303, \H0242>>, <<\H1283, \H5b01, \H4570, \H6fbe>>,
     <<\H2431, \H85be, \H4ee4, \Hb28c>>, <<\H550c, \H7dc3, \Hd5ff, \Hb4e2>>,
     <<\H72be, \H5d74, \Hf27b, \H896f>>, <<\H80de, \Hb1fe, \H3b16, \H96b1>>,
     <<\H9bdc, \H06a7, \H25c7, \H1235>>, <<\Hc19b, \Hf174, \Hcf69, \H2694>>,
     <<\He49b, \H69c1, \H9ef1, \H4ad2>>, <<\Hefbe, \H4786, \H384f, \H25e3>>,
     <<\H0fc1, \H9dc6, \H8b8c, \Hd5b5>>, <<\H240c, \Ha1cc, \H77ac, \H9c65>>,
     <<\H2de9, \H2c6f, \H592b, \H0275>>, <<\H4a74, \H84aa, \H6ea6, \He483>>,
     <<\H5cb0, \Ha9dc, \Hbd41, \Hfbd4>>, <<\H76f9, \H88da, \H8311, \H53b5>>,
     <<\H983e, \H5152, \Hee66, \Hdfab>>, <<\Ha831, \Hc66d, \H2db4, \H3210>>,
     <<\Hb003, \H27c8, \H98fb, \H213f>>, <<\Hbf59, \H7fc7, \Hbeef, \H0ee4>>,
     <<\Hc6e0, \H0bf3, \H3da8, \H8fc2>>, <<\Hd5a7, \H9147, \H930a, \Ha725>>,
     <<\H06ca, \H6351, \He003, \H826f>>, <<\H1429, \H2967, \H0a0e, \H6e70>>,
     <<\H27b7, \H0a85, \H46d2, \H2ffc>>, <<\H2e1b, \H2138, \H5c26, \Hc926>>,
     <<\H4d2c, \H6dfc, \H5ac4, \H2aed>>, <<\H5338, \H0d13, \H9d95, \Hb3df>>,
     <<\H650a, \H7354, \H8baf, \H63de>>, <<\H766a, \H0abb, \H3c77, \Hb2a8>>,
     <<\H81c2, \Hc92e, \H47ed, \Haee6>>, <<\H9272, \H2c85, \H1482, \H353b>>,
     <<\Ha2bf, \He8a1, \H4cf1, \H0364>>, <<\Ha81a, \H664b, \Hbc42, \H3001>>,
     <<\Hc24b, \H8b70, \Hd0f8, \H9791>>, <<\Hc76c, \H51a3, \H0654, \Hbe30>>,
     <<\Hd192, \He819, \Hd6ef, \H5218>>, <<\Hd699, \H0624, \H5565, \Ha910>>,
     <<\Hf40e, \H3585, \H5771, \H202a>>, <<\H106a, \Ha070, \H32bb, \Hd1b8>>,
     <<\H19a4, \Hc116, \Hb8d2, \Hd0c8>>, <<\H1e37, \H6c08, \H5141, \Hab53>>,
     <<\H2748, \H774c, \Hdf8e, \Heb99>>, <<\H34b0, \Hbcb5, \He19b, \H48a8>>,
     <<\H391c, \H0cb3, \Hc5c9, \H5a63>>, <<\H4ed8, \Haa4a, \He341, \H8acb>>,
     <<\H5b9c, \Hca4f, \H7763, \He373>>, <<\H682e, \H6ff3, \Hd6b2, \Hb8a3>>,
     <<\H748f, \H82ee, \H5def, \Hb2fc>>, <<\H78a5, \H636f, \H4317, \H2f60>>,
     <<\H84c8, \H7814, \Ha1f0, \Hab72>>, <<\H8cc7, \H0208, \H1a64, \H39ec>>,
     <<\H90be, \Hfffa, \H2363, \H1e28>>, <<\Ha450, \H6ceb, \Hde82, \Hbde9>>,
     <<\Hbef9, \Ha3f7, \Hb2c6, \H7915>>, <<\Hc671, \H78f2, \He372, \H532b>>,
     <<\Hca27, \H3ece, \Hea26, \H619c>>, <<\Hd186, \Hb8c7, \H21c0, \Hc207>>,
     <<\Heada, \H7dd6, \Hcde0, \Heb1e>>, <<\Hf57d, \H4f7f, \Hee6e, \Hd178>>,
     <<\H06f0, \H67aa, \H7217, \H6fba>>, <<\H0a63, \H7dc5, \Ha2c8, \H98a6>>,
     <<\H113f, \H9804, \Hbef9, \H0dae>>, <<\H1b71, \H0b35, \H131c, \H471b>>,
     <<\H28db, \H77f5, \H2304, \H7d84>>, <<\H32ca, \Hab7b, \H40c7, \H2493>>,
     <<\H3c9e, \Hbe0a, \H15c9, \Hbebc>>, <<\H431d, \H67c4, \H9c10, \H0d4c>>,
     <<\H4cc5, \Hd4be, \Hcb3e, \H42b6>>, <<\H597f, \H299c, \Hfc65, \H7e2a>>,
     <<\H5fcb, \H6fab, \H3ad6, \Hfaec>>, <<\H6c44, \H198c, \H4a47, \H5817>> >>

\* DefaultSha2<u32> for Sha2<u32, 256, [u8; 32]>
IV_Sha256 ==
  << <<\H6a09, \He667>>, <<\Hbb67, \Hae85>>, <<\H3c6e, \Hf372>>, <<\Ha54f, \Hf53a>>,
     <<\H510e, \H527f>>, <<\H9b05, \H688c>>, <<\H1f83, \Hd9ab>>, <<\H5be0, \Hcd19>> >>

\* DefaultSha2<u32> for Sha2<u32, 224, [u8; 28]>
IV_Sha224 ==
  << <<\Hc105, \H9ed8>>, <<\H367c, \Hd507>>, <<\H3070, \Hdd17>>, <<\Hf70e, \H5939>>,
     <<\Hffc0, \H0b31>>, <<\H6858, \H1511>>, <<\H64f9, \H8fa7>>, <<\Hbefa, \H4fa4>> >>

\* DefaultSha2<u64> for Sha2<u64, 512, [u8; 64]>
IV_Sha512 ==
  << <<\H6a09, \He667, \Hf3bc, \Hc908>>, <<\Hbb67, \Hae85, \H84ca, \Ha73b>>,
     <<\H3c6e, \Hf372, \Hfe94, \Hf82b>>, <<\Ha54f, \Hf53a, \H5f1d, \H36f1>>,
     <<\H510e, \H527f, \Hade6, \H82d1>>, <<\H9b05, \H688c, \H2b3e, \H6c1f>>,
     <<\H1f83, \Hd9ab, \Hfb41, \Hbd6b>>, <<\H5be0, \Hcd19, \H137e, \H2179>> >>

\* DefaultSha2<u64> for Sha2<u64, 384, [u8; 48]>
IV_Sha384 ==
  << <<\Hcbbb, \H9d5d, \Hc105, \H9ed8>>, <<\H629a, \H292a, \H367c, \Hd507>>,
     <<\H9159, \H015a, \H3070, \Hdd17>>, <<\H152f, \Hecd8, \Hf70e, \H5939>>,
     <<\H6733, \H2667, \Hffc0, \H0b31>>, <<\H8eb4, \H4a87, \H6858, \H1511>>,
     <<\Hdb0c, \H2e0d, \H64f9, \H8fa7>>, <<\H47b5, \H481d, \Hbefa, \H4fa4>> >>

\* DefaultSha2<u64> for Sha2<u64, 256, [u8; 32]>
IV_Sha512_256 ==
  << <<\H2231, \H2194, \Hfc2b, \Hf72c>>, <<\H9f55, \H5fa3, \Hc84c, \H64c2>>,
     <<\H2393, \Hb86b, \H6f53, \Hb151>>, <<\H9638, \H7719, \H5940, \Heabd>>,
     <<\H9628, \H3ee2, \Ha88e, \Hffe3>>, <<\Hbe5e, \H1e25, \H5386, \H3992>>,
     <<\H2b01, \H99fc, \H2c85, \Hb8aa>>, <<\H0eb7, \H2ddc, \H81c5, \H2ca2>> >>

\* DefaultSha2<u64> for Sha2<u64, 224, [u8; 28]>
IV_Sha512_224 ==
  << <<\H8c3d, \H37c8, \H1954, \H4da2>>, <<\H73e1, \H9966, \H89dc, \Hd4d6>>,
     <<\H1dfa, \Hb7ae, \H32ff, \H9c82>>, <<\H679d, \Hd514, \H582f, \H9fcf>>,
     <<\H0f6d, \H2b69, \H7bd4, \H4da8>>, <<\H77e3, \H6f73, \H04c4, \H8942>>,
     <<\H3f9d, \H85a8, \H6a1d, \H36c8>>, <<\H1112, \He6ad, \H91d6, \H92a1>> >>

size_of(W) == IF W = "u32" THEN 4 ELSE 8

\* Sha2Word::Block
Sha2_BlockLen(W) == IF W = "u32" THEN 64 ELSE 128

ROUND_CONSTANTS(W) == IF W = "u32" THEN ROUND_CONSTANTS_u32 ELSE ROUND_CONSTANTS_u64

\* Sha2Word::sigma: (s0, s1) from w1 = w[i-15] and w2 = w[i-2].
sigma(W, w1, w2) ==
  IF W = "u32"
  THEN <<BitXor(BitXor(rotate_right(w1, 7), rotate_right(w1, 18)), Shr(w1, 3)),
         BitXor(BitXor(rotate_right(w2, 17), rotate_right(w2, 19)), Shr(w2, 10))>>
  ELSE <<BitXor(BitXor(rotate_right(w1, 1), rotate_right(w1, 8)), Shr(w1, 7)),
         BitXor(BitXor(rotate_right(w2, 19), rotate_right(w2, 61)), Shr(w2, 6))>>

\* Sha2Word::sum: (S0, S1) from a and e.
sum(W, a, e) ==
  IF W = "u32"
  THEN <<BitXor(BitXor(rotate_right(a, 2), rotate_right(a, 13)), rotate_right(a, 22)),
         BitXor(BitXor(rotate_right(e, 6), rotate_right(e, 11)), rotate_right(e, 25))>>
  ELSE <<BitXor(BitXor(rotate_right(a, 28), rotate_right(a, 34)), rotate_right(a, 39)),
         BitXor(BitXor(rotate_right(e, 14), rotate_right(e, 18)), rotate_right(e, 41))>>

\* A round that reads w[(i + 8) & 15] where the code reads w[(i + 9) & 15] in
\* the expansion.
Sha2_round_w8(W, r, i, k) ==
  LET a == r.v[1]  b == r.v[2]  c == r.v[3]  d == r.v[4]
      e == r.v[5]  f == r.v[6]  g == r.v[7]  h == r.v[8]
      w == r.w
      ch  == BitXor(BitAnd(e, f), BitAnd(Not(e), g))
      maj == BitXor(BitXor(BitAnd(a, b), BitAnd(a, c)), BitAnd(b, c))
  IN  CHOOSE n \in
        {CHOOSE m \in
           {[w |-> [w EXCEPT ![(i % 16) + 1] =
                      wrapping_add(wrapping_add(wrapping_add(w[(i % 16) + 1], s[1]),
                                                w[((i + 8) % 16) + 1]), s[2])],
             v |-> <<wrapping_add(temp1, wrapping_add(S[1], maj)), a, b, c,
                     wrapping_add(d, temp1), e, f, g>>]
            : temp1 \in {wrapping_add(wrapping_add(wrapping_add(wrapping_add(h, S[2]), ch), k),
                                      w[(i % 16) + 1])}} : TRUE
         : S \in {sum(W, a, e)},
           s \in {sigma(W, w[((i + 1) % 16) + 1], w[((i + 14) % 16) + 1])}} : TRUE

\* One pass of the round loop of Sha2::raw_update: r = [w, v] holds the ring w
\* (slot i & 15 at index (i % 16) + 1) and the registers v = <<a, ..., h>>.
Sha2_round(W, r, i, k) ==
  LET a == r.v[1]  b == r.v[2]  c == r.v[3]  d == r.v[4]
      e == r.v[5]  f == r.v[6]  g == r.v[7]  h == r.v[8]
      w == r.w
      ch  == BitXor(BitAnd(e, f), BitAnd(Not(e), g))
      maj == BitXor(BitXor(BitAnd(a, b), BitAnd(a, c)), BitAnd(b, c))
  IN  CHOOSE n \in
        {CHOOSE m \in
           {[w |-> [w EXCEPT ![(i % 16) + 1] =
                      wrapping_add(wrapping_add(wrapping_add(w[(i % 16) + 1], s[1]),
                                                w[((i + 9) % 16) + 1]), s[2])],
             v |-> <<wrapping_add(temp1, wrapping_add(S[1], maj)), a, b, c,
                     wrapping_add(d, temp1), e, f, g>>]
            : temp1 \in {wrapping_add(wrapping_add(wrapping_add(wrapping_add(h, S[2]), ch), k),
                                      w[(i % 16) + 1])}} : TRUE
         : S \in {sum(W, a, e)},
           s \in {sigma(W, w[((i + 1) % 16) + 1], w[((i + 14) % 16) + 1])}} : TRUE

RECURSIVE Sha2_rounds(_, _, _, _)
\* The rounds lo .. hi - 1 of the round loop, in order (the first half of them,
\* then the rest), round i with ROUND_CONSTANTS[i].
Sha2_rounds(W, r, lo, hi) ==
  IF hi <= lo THEN r
  ELSE IF hi = lo + 1 THEN Sha2_round(W, r, lo, ROUND_CONSTANTS(W)[lo + 1])
  ELSE CHOOSE o \in {Sha2_rounds(W, n, (lo + hi) \div 2, hi)
                     : n \in {Sha2_rounds(W, r, lo, (lo + hi) \div 2)}} : TRUE

\* The ring after the block's sixteen big-endian words are loaded.
Sha2_load(W, block) ==
  [i \in 1..16 |-> from_be_bytes(SubSeq(block, size_of(W) * (i - 1) + 1, size_of(W) * i))]

\* Sha2::raw_update.  absorbed is the history of the blocks compressed.
Sha2_raw_update(W, self, block) ==
  CHOOSE o \in
    {[state |-> LET f(j) == wrapping_add(self.state[j], r.v[j])
                IN  <<f(1), f(2), f(3), f(4), f(5), f(6), f(7), f(8)>>,
      byte_count |-> self.byte_count + Sha2_BlockLen(W),
      absorbed |-> Append(self.absorbed, block),
      panic |-> FALSE]
     : r \in {Sha2_rounds(W, r0, 0, Len(ROUND_CONSTANTS(W))) : r0 \in {[w |-> Sha2_load(W, block), v |-> self.state]}}}
    : TRUE

\* *fblock.last_chunk_mut() = bitcount.to_be_bytes()
last_chunk_set(block, bytes) ==
  SubSeq(block, 1, Len(block) - Len(bytes)) \o bytes

\* Sha2::raw_update_final
Sha2_raw_update_final(W, self, rest) ==
  LET LEN        == Sha2_BlockLen(W)
      final_size == LEN - (2 * size_of(W) + 1)
      bitcount   == (self.byte_count + Len(rest)) * 8
      ext        == ByteArray_extend(LEN, rest)
  IN  IF ~ext.ok THEN [self EXCEPT !.panic = TRUE]
      ELSE IF Len(rest) < final_size
      THEN Sha2_raw_update(W, self,
             last_chunk_set([ext.val EXCEPT ![Len(rest) + 1] = 128], U64_to_be_bytes(bitcount)))
      ELSE IF Len(rest) < LEN
      THEN Sha2_raw_update(W,
             Sha2_raw_update(W, self, [ext.val EXCEPT ![Len(rest) + 1] = 128]),
             last_chunk_set(Zeroed(LEN), U64_to_be_bytes(bitcount)))
      ELSE Sha2_raw_update(W, self,
             last_chunk_set([Zeroed(LEN) EXCEPT ![1] = 128], U64_to_be_bytes(bitcount)))

\* A finish that takes the state it returns: the output of Sha2::finish, and
\* the state words cleared behind it.
Sha2_finish_take(self, BITS, OLEN) ==
  LET raw_array == Concat([j \in 1..8 |-> to_be_bytes(self.state[j])])
      output    == ByteArray_truncate(OLEN, raw_array).val
      tbits     == OLEN * 8 - BITS
      n         == 255 \div (2 ^ tbits)
  IN  [self   |-> [self EXCEPT !.state = [j \in 1..8 |-> [l \in 1..Len(self.state[j]) |-> 0]]],
       output |-> [output EXCEPT ![OLEN] = ByteAnd(output[OLEN], n)]]

\* Sha2::finish(&self), for output length OLEN bytes and BITS bits: the digest
\* afterwards and the output returned.
Sha2_finish(self, BITS, OLEN) ==
  LET raw_array == Concat([j \in 1..8 |-> to_be_bytes(self.state[j])])
      output    == ByteArray_truncate(OLEN, raw_array).val
      tbits     == OLEN * 8 - BITS
      n         == 255 \div (2 ^ tbits)
  IN  [self |-> self, output |-> [output EXCEPT ![OLEN] = ByteAnd(output[OLEN], n)]]

\* Sha2::new_with_iv
Sha2_new_with_iv(iv) == [state |-> iv, byte_count |-> 0, absorbed |-> <<>>, panic |-> FALSE]

(***************************************************************************)
(* The Keccak engine (src/digest/raw/sha3.rs), for the 64-bit word.  The   *)
(* state [[W; 5]; 5] is the tuple of its 25 lanes, lane [i][j] at          *)
(* position 5 * i + j + 1.                                                 *)
(***************************************************************************)
\* w << n, with n below the width.
Shl(a, n) ==
  CHOOSE r \in {LET q == n \div 16
                    P == 2 ^ (n % 16)
                    f(k) == ((Limb(p, k - q) % (65536 \div P)) * P)
                            + (Limb(p, k - q - 1) \div (65536 \div P))
                IN  IF Len(p) = 2 THEN <<f(1), f(0)>> ELSE <<f(3), f(2), f(1), f(0)>>
                : p \in {a}} : TRUE

BitOr(a, b) ==
  CHOOSE r \in {LET f(i) == p[i] + q[i] - And16(p[i], q[i])
                IN  IF Len(p) = 2 THEN <<f(1), f(2)>> ELSE <<f(1), f(2), f(3), f(4)>>
                : p \in {a}, q \in {b}} : TRUE

\* Sha3Word::from_le_bytes for u64
from_le_bytes(arr) ==
  <<256 * arr[8] + arr[7], 256 * arr[6] + arr[5], 256 * arr[4] + arr[3], 256 * arr[2] + arr[1]>>

\* Sha3Word::to_le_bytes for u64
to_le_bytes(w) ==
  <<w[4] % 256, w[4] \div 256, w[3] % 256, w[3] \div 256,
    w[2] % 256, w[2] \div 256, w[1] % 256, w[1] \div 256>>

\* Sha3Word::from_u8 for u64
from_u8(val) == <<0, 0, 0, val>>

\* The position of lane [i][j] in the state tuple.
Lane(i, j) == 5 * i + j + 1

\* The fold of permute_theta for column j.
theta_fold(arr, j) ==
  LET v(i) == BitAnd(arr[Lane(i, (j + 4) % 5)], rotate_left(arr[Lane(i, (j + 1) % 5)], 1))
  IN  BitXor(BitXor(BitXor(BitXor(BitXor(<<0, 0, 0, 0>>, v(0)), v(1)), v(2)), v(3)), v(4))

permute_theta(arr) ==
  CHOOSE ret \in
    {CHOOSE r \in
       {LET f(n) == BitXor(a[n], p[((n - 1) % 5) + 1])
        IN  <<f(1), f(2), f(3), f(4), f(5), f(6), f(7), f(8), f(9), f(10),
              f(11), f(12), f(13), f(14), f(15), f(16), f(17), f(18), f(19), f(20),
              f(21), f(22), f(23), f(24), f(25)>>
        : p \in {<<theta_fold(a, 0), theta_fold(a, 1), theta_fold(a, 2),
                   theta_fold(a, 3), theta_fold(a, 4)>>}} : TRUE
     : a \in {arr}} : TRUE

permute_pi(arr) ==
  CHOOSE ret \in
    {LET f(n) == LET x == (n - 1) \div 5
                     y == (n - 1) % 5
                 IN  a[Lane(y, CHOOSE j \in 0..4 : (3 * y + 2 * j) % 5 = x)]
     IN  <<f(1), f(2), f(3), f(4), f(5), f(6), f(7), f(8), f(9), f(10),
           f(11), f(12), f(13), f(14), f(15), f(16), f(17), f(18), f(19), f(20),
           f(21), f(22), f(23), f(24), f(25)>>
     : a \in {arr}} : TRUE

\* permute_chi on one row: ret[i][j] ^= !ret[i][j + 1] & ret[i][j + 2], for j
\* from 0 to 4 in place, so that j = 3 and j = 4 read the slots already rewritten.
chi_row(row) ==
  CHOOSE ret \in
    {CHOOSE r3 \in
       {CHOOSE r4 \in
          {<<n0, n1, n2, n3, BitXor(r[5], BitAnd(Not(n0), n1))>>
           : n3 \in {BitXor(r[4], BitAnd(Not(r[5]), n0))}} : TRUE
        : n0 \in {BitXor(r[1], BitAnd(Not(r[2]), r[3]))},
          n1 \in {BitXor(r[2], BitAnd(Not(r[3]), r[4]))},
          n2 \in {BitXor(r[3], BitAnd(Not(r[4]), r[5]))}} : TRUE
     : r \in {row}} : TRUE

permute_chi(arr) ==
  CHOOSE ret \in
    {chi_row(SubSeq(a, 1, 5)) \o chi_row(SubSeq(a, 6, 10)) \o chi_row(SubSeq(a, 11, 15))
       \o chi_row(SubSeq(a, 16, 20)) \o chi_row(SubSeq(a, 21, 25))
     : a \in {arr}} : TRUE

TBL ==
  << <<0, 36, 3, 105, 210>>,
     <<1, 300, 10, 45, 66>>,
     <<190, 6, 171, 15, 253>>,
     <<28, 55, 153, 21, 120>>,
     <<91, 276, 231, 136, 78>> >>

permute_rho(arr) ==
  CHOOSE res \in
    {LET f(n) == rotate_left(a[n], TBL[((n - 1) \div 5) + 1][((n - 1) % 5) + 1] % 64)
     IN  <<f(1), f(2), f(3), f(4), f(5), f(6), f(7), f(8), f(9), f(10),
           f(11), f(12), f(13), f(14), f(15), f(16), f(17), f(18), f(19), f(20),
           f(21), f(22), f(23), f(24), f(25)>>
     : a \in {arr}} : TRUE

update_lfsr(n) ==
  CHOOSE r \in {ByteXor((2 * m) % 256, ByteOr(ByteOr(ByteOr(b, b * 16), b * 32), b * 64))
                : m \in {n}, b \in {n \div 128}} : TRUE

RECURSIVE lfsr_after(_, _)
\* lfsr after the n applications of update_lfsr of rc_word's first loop (the
\* first half of them, then the rest).
lfsr_after(lfsr, n) ==
  IF n = 0 THEN lfsr
  ELSE IF n = 1 THEN update_lfsr(lfsr)
  ELSE CHOOSE o \in {lfsr_after(x, n - (n \div 2)) : x \in {lfsr_after(lfsr, n \div 2)}} : TRUE

RECURSIVE rc_word_loop(_, _, _, _)
\* The loop of rc_word from iteration i, for W::L = 6.
rc_word_loop(word, lfsr, r, i) ==
  IF i > 6 THEN word
  ELSE CHOOSE o \in
         {rc_word_loop(w, l, IF r + 1 = 255 THEN 0 ELSE r + 1, i + 1)
          : w \in {BitOr(word, Shl(from_u8(ByteAnd(lfsr, 1)), (2 ^ i) - 1))},
            l \in {IF r + 1 = 255 THEN 1 ELSE update_lfsr(lfsr)}} : TRUE

rc_word(n) == rc_word_loop(<<0, 0, 0, 0>>, lfsr_after(1, (7 * n) % 255), (7 * n) % 255, 0)

permute_iota(arr, r) ==
  CHOOSE ret \in {[a EXCEPT ![Lane(0, 0)] = BitXor(a[Lane(0, 0)], rc_word(r))] : a \in {arr}} : TRUE

permute_round(arr, r) ==
  permute_iota(permute_chi(permute_pi(permute_rho(permute_theta(arr)))), r)

RECURSIVE permute_rounds(_, _, _)
\* The rounds lo .. hi - 1 of permute_state, in order (the first half of them,
\* then the rest).
permute_rounds(state, lo, hi) ==
  IF hi <= lo THEN state
  ELSE IF hi = lo + 1 THEN permute_round(state, lo)
  ELSE CHOOSE o \in {permute_rounds(n, (lo + hi) \div 2, hi)
                     : n \in {permute_rounds(state, lo, (lo + hi) \div 2)}} : TRUE

(***************************************************************************)
(* BaseArrayVec (src/array.rs) over plain and Secret storage.              *)
(***************************************************************************)
\* BaseArrayVec::from_slice.  Over Secret storage the slice it copies into
\* comes from Secret<[u8]>::slice_unchecked_mut, which is todo!().
BaseArrayVec_from_slice(LEN, sl, storage) ==
  IF Len(sl) > LEN THEN [inner |-> Zeroed(LEN), len |-> 0, panic |-> TRUE]
  ELSE IF storage = "Secret" THEN [inner |-> Zeroed(LEN), len |-> 0, panic |-> TRUE]
  ELSE [inner |-> sl \o Zeroed(LEN - Len(sl)), len |-> Len(sl), panic |-> FALSE]

\* push that stores the byte and leaves len as it was.
BaseArrayVec_push_nolen(self, val) ==
  IF self.panic THEN self
  ELSE IF self.len = Len(self.inner) THEN [self EXCEPT !.panic = TRUE]
  ELSE [self EXCEPT !.inner[self.len + 1] = val]

\* BaseArrayVec::push
BaseArrayVec_push(self, val) ==
  IF self.panic THEN self
  ELSE IF self.len = Len(self.inner) THEN [self EXCEPT !.panic = TRUE]
  ELSE [self EXCEPT !.inner[self.len + 1] = val, !.len = self.len + 1]

\* BaseArrayVec::zero_pad
BaseArrayVec_zero_pad(self) ==
  [self EXCEPT !.inner = SubSeq(self.inner, 1, self.len) \o Zeroed(Len(self.inner) - self.len),
               !.len = Len(self.inner)]

\* into_inner that returns the bytes in use, as as_slice does.
BaseArrayVec_into_inner_slice(self) == SubSeq(self.inner, 1, self.len)

\* BaseArrayVec::into_inner
BaseArrayVec_into_inner(self) == BaseArrayVec_zero_pad(self).inner

(***************************************************************************)
(* Keccack<S> (src/digest/raw/sha3.rs).                                    *)
(***************************************************************************)
RECURSIVE count_zeros(_, _)
\* u8::count_zeros, over the bits still to look at.
count_zeros(n, bits) ==
  IF bits = 0 THEN 0 ELSE (1 - (n % 2)) + count_zeros(n \div 2, bits - 1)

\* The KeccackSpec implementations of sha3!(Sha3Spec256(256)) and of
\* shake_impl!(Shake128Spec(256) = 0b1111) at shake128!(256), and
\* shake_impl!(RawShake128Spec(256) = 0b11) at 256 bits.
KeccackSpec(S) ==
  CASE S = "Sha3_256" ->
         [Rate |-> (1600 - 2 * 256) \div 8, Output |-> 256 \div 8, OUT_BITS |-> 256,
          ROUNDS |-> 24, PREPAD_BITS |-> 2, PREPAD_LENGTH |-> 2]
    [] S = "Shake128" ->
         [Rate |-> (1600 - 256) \div 8, Output |-> (256 + 7) \div 8, OUT_BITS |-> 256,
          ROUNDS |-> 24, PREPAD_BITS |-> 15, PREPAD_LENGTH |-> count_zeros(15, 8)]
    [] S = "RawShake128" ->
         [Rate |-> (1600 - 256) \div 8, Output |-> (256 + 7) \div 8, OUT_BITS |-> 256,
          ROUNDS |-> 24, PREPAD_BITS |-> 3, PREPAD_LENGTH |-> count_zeros(3, 8)]

\* Keccack::new.  absorbed is the history of the blocks given to raw_update.
Keccack_new ==
  [state |-> [n \in 1..25 |-> <<0, 0, 0, 0>>], absorbed |-> <<>>, panic |-> FALSE]

\* Keccack::permute_state
permute_state(S, state) == permute_rounds(state, 0, KeccackSpec(S).ROUNDS)

\* The bytes of the state in lane order, each lane little-endian.
state_bytes(state) ==
  to_le_bytes(state[1]) \o to_le_bytes(state[2]) \o to_le_bytes(state[3])
    \o to_le_bytes(state[4]) \o to_le_bytes(state[5]) \o to_le_bytes(state[6])
    \o to_le_bytes(state[7]) \o to_le_bytes(state[8]) \o to_le_bytes(state[9])
    \o to_le_bytes(state[10]) \o to_le_bytes(state[11]) \o to_le_bytes(state[12])
    \o to_le_bytes(state[13]) \o to_le_bytes(state[14]) \o to_le_bytes(state[15])
    \o to_le_bytes(state[16]) \o to_le_bytes(state[17]) \o to_le_bytes(state[18])
    \o to_le_bytes(state[19]) \o to_le_bytes(state[20]) \o to_le_bytes(state[21])
    \o to_le_bytes(state[22]) \o to_le_bytes(state[23]) \o to_le_bytes(state[24])
    \o to_le_bytes(state[25])

\* Keccack::raw_output: the first Rate bytes of the state, which is then permuted.
Keccack_raw_output(S, self) ==
  [self |-> [self EXCEPT !.state = permute_state(S, self.state)],
   r    |-> SubSeq(state_bytes(self.state), 1, KeccackSpec(S).Rate)]

\* pad_sha3
pad_sha3(S, rest) ==
  LET block == BaseArrayVec_push(
                 BaseArrayVec_from_slice(KeccackSpec(S).Rate, rest, "plain"),
                 ByteOr(KeccackSpec(S).PREPAD_BITS, 2 ^ KeccackSpec(S).PREPAD_LENGTH))
      inner == BaseArrayVec_into_inner(block)
  IN  [ok  |-> ~block.panic,
       val |-> [inner EXCEPT ![Len(inner)] = ByteOr(inner[Len(inner)], 128)]]

\* Keccack::raw_update
Keccack_raw_update(S, self, block) ==
  CHOOSE o \in
    {IF arr.panic THEN [self EXCEPT !.panic = TRUE]
     ELSE CHOOSE n \in
            {[state |-> permute_state(S, x),
              absorbed |-> Append(self.absorbed, block),
              panic |-> FALSE]
             : x \in {LET f(n) == BitXor(self.state[n],
                                         from_le_bytes(SubSeq(sl, 8 * (n - 1) + 1, 8 * n)))
                      IN  <<f(1), f(2), f(3), f(4), f(5), f(6), f(7), f(8), f(9), f(10),
                            f(11), f(12), f(13), f(14), f(15), f(16), f(17), f(18), f(19),
                            f(20), f(21), f(22), f(23), f(24), f(25)>>
                      : sl \in {BaseArrayVec_into_inner(arr)}}} : TRUE
     : arr \in {BaseArrayVec_from_slice(200, block, "plain")}} : TRUE

\* Keccack::raw_update_final
Keccack_raw_update_final(S, self, rest) ==
  LET block == pad_sha3(S, rest)
  IN  IF ~block.ok THEN [self EXCEPT !.panic = TRUE]
      ELSE Keccack_raw_update(S, self, block.val)

RECURSIVE Keccack_finish_chunks(_, _, _)
\* The chunk loop of Keccack::finish: n raw_output blocks.
Keccack_finish_chunks(S, self, n) ==
  IF n = 0 THEN [self |-> self, output |-> <<>>]
  ELSE CHOOSE o \in
         {CHOOSE p \in
            {[self |-> rest.self, output |-> first.r \o rest.output]
             : rest \in {Keccack_finish_chunks(S, first.self, n - 1)}} : TRUE
          : first \in {Keccack_raw_output(S, self)}} : TRUE

\* Keccack::finish
Keccack_finish(S, self) ==
  LET OLEN  == KeccackSpec(S).Output
      Rate  == KeccackSpec(S).Rate
      rlen  == OLEN % Rate
      lmask == 255 \div (2 ^ ((8 - (KeccackSpec(S).OUT_BITS % 8)) % 8))
  IN  CHOOSE o \in
        {CHOOSE p \in
           {[self   |-> last.self,
             output |-> LET output == chunks.output \o SubSeq(last.r, 1, rlen)
                        IN  [output EXCEPT ![OLEN] = ByteAnd(output[OLEN], lmask)]]
            : last \in {IF rlen > 0 THEN Keccack_raw_output(S, chunks.self)
                        ELSE [self |-> chunks.self, r |-> <<>>]}} : TRUE
         : chunks \in {Keccack_finish_chunks(S, self, OLEN \div Rate)}} : TRUE

(***************************************************************************)
(* The raw SHA-1 engine (src/digest/raw/sha1.rs).                          *)
(***************************************************************************)
\* raw Sha1::new
RawSha1_new ==
  [state |-> << <<\H6745, \H2301>>, <<\HEFCD, \HAB89>>, <<\H98BA, \HDCFE>>,
                <<\H1032, \H5476>>, <<\HC3D2, \HE1F0>> >>,
   byte_len |-> 0, absorbed |-> <<>>, panic |-> FALSE]

\* The (f, k) of round i in raw Sha1::raw_update, from b, c and d.
RawSha1_fk(i, b, c, d) ==
  IF i < 20 THEN <<BitOr(BitAnd(b, c), BitAnd(Not(b), d)), <<\H5A82, \H7999>> >>
  ELSE IF i < 40 THEN <<BitXor(BitXor(b, c), d), <<\H6ED9, \HEBA1>> >>
  ELSE IF i < 60
  THEN <<BitXor(BitXor(BitAnd(b, c), BitAnd(b, d)), BitAnd(c, d)), <<\H8F1B, \HBCDC>> >>
  ELSE <<BitXor(BitXor(b, c), d), <<\HCA62, \HC1D6>> >>

\* One pass of the round loop of raw Sha1::raw_update on r = [w, v, panic]: the
\* 16-word array w (w[i] at index i + 1) and the registers v = <<a, ..., e>>.
\* The statement w[i] = ... indexes w by i itself, in bounds only below 16, and
\* reads w[i] & 15 as its last operand.
RawSha1_round(r, i) ==
  IF i >= Len(r.w) THEN [r EXCEPT !.panic = TRUE]
  ELSE CHOOSE n \in
         {[w |-> [r.w EXCEPT ![i + 1] =
                    rotate_left(
                      BitXor(BitXor(BitXor(r.w[((i + 13) % 16) + 1], r.w[((i + 8) % 16) + 1]),
                                    r.w[((i + 2) % 16) + 1]),
                             BitAnd(r.w[i + 1], <<0, 15>>)), 1)],
           v |-> <<wrapping_add(wrapping_add(wrapping_add(wrapping_add(
                                  rotate_left(r.v[1], 5), fk[1]), fk[2]), r.v[5]),
                                r.w[(i % 16) + 1]),
                   r.v[1], rotate_left(r.v[2], 30), r.v[3], r.v[4]>>,
           panic |-> FALSE]
          : fk \in {RawSha1_fk(i, r.v[2], r.v[3], r.v[4])}} : TRUE

RECURSIVE RawSha1_rounds(_, _, _)
\* The rounds lo .. hi - 1 of the loop for i in 0..80, in order (the first half
\* of them, then the rest), until one panics.
RawSha1_rounds(r, lo, hi) ==
  IF hi <= lo \/ r.panic THEN r
  ELSE IF hi = lo + 1 THEN RawSha1_round(r, lo)
  ELSE CHOOSE o \in {RawSha1_rounds(n, (lo + hi) \div 2, hi)
                     : n \in {RawSha1_rounds(r, lo, (lo + hi) \div 2)}} : TRUE

\* raw Sha1::raw_update
RawSha1_raw_update(self, block) ==
  CHOOSE o \in
    {IF r.panic
     THEN [self EXCEPT !.byte_len = self.byte_len + 64, !.panic = TRUE]
     ELSE [state |-> LET f(j) == wrapping_add(self.state[j], r.v[j])
                     IN  <<f(1), f(2), f(3), f(4), f(5)>>,
           byte_len |-> self.byte_len + 64,
           absorbed |-> Append(self.absorbed, block),
           panic |-> FALSE]
     : r \in {RawSha1_rounds(r0, 0, 80)
              : r0 \in {[w |-> [i \in 1..16 |-> from_be_bytes(SubSeq(block, 4 * i - 3, 4 * i))],
                         v |-> self.state, panic |-> FALSE]}}} : TRUE

\* raw Sha1::raw_update_final
RawSha1_raw_update_final(self, rest) ==
  LET final_size == 64 - 9
      bitcount   == (self.byte_len + Len(rest)) * 8
      ext        == ByteArray_extend(64, rest)
      after(s, fblock) ==
        IF s.panic THEN s
        ELSE RawSha1_raw_update(s, last_chunk_set(fblock, U64_to_be_bytes(bitcount)))
  IN  IF ~ext.ok THEN [self EXCEPT !.panic = TRUE]
      ELSE IF Len(rest) < final_size
      THEN after(self, [ext.val EXCEPT ![Len(rest) + 1] = 128])
      ELSE IF Len(rest) < 64
      THEN after(RawSha1_raw_update(self, [ext.val EXCEPT ![Len(rest) + 1] = 128]), Zeroed(64))
      ELSE after(self, [Zeroed(64) EXCEPT ![1] = 128])

\* raw Sha1::finish
RawSha1_finish(self) ==
  [self   |-> self,
   output |-> to_be_bytes(self.state[1]) \o to_be_bytes(self.state[2])
                \o to_be_bytes(self.state[3]) \o to_be_bytes(self.state[4])
                \o to_be_bytes(self.state[5])]

(***************************************************************************)
(* The legacy digests (src/digest/sha1.rs, src/digest/sha2.rs).            *)
(***************************************************************************)
\* Sha1::new
Sha1_new ==
  [h |-> << <<\H6745, \H2301>>, <<\HEFCD, \HAB89>>, <<\H98BA, \HDCFE>>,
            <<\H1032, \H5476>>, <<\HC3D2, \HE1F0>> >>,
   size |-> 0, absorbed |-> <<>>, panic |-> FALSE]

RECURSIVE Sha1_words(_, _, _)
\* The passes lo .. hi - 1 of the loop for i in 16..80 of Sha1::update, in order
\* (words[i] at index i + 1).
Sha1_words(words, lo, hi) ==
  IF hi <= lo THEN words
  ELSE IF hi = lo + 1
  THEN CHOOSE o \in
         {Append(w, rotate_left(BitXor(BitXor(BitXor(w[lo - 2], w[lo - 7]), w[lo - 13]),
                                       w[lo - 15]), 1))
          : w \in {words}} : TRUE
  ELSE CHOOSE o \in {Sha1_words(n, (lo + hi) \div 2, hi)
                     : n \in {Sha1_words(words, lo, (lo + hi) \div 2)}} : TRUE

\* The (f, k) of round i in Sha1::update.
Sha1_fk(i, b, c, d) ==
  IF i <= 19 THEN <<BitOr(BitAnd(b, c), BitAnd(Not(b), d)), <<\H5A82, \H7999>> >>
  ELSE IF i <= 39 THEN <<BitXor(BitXor(b, c), d), <<\H6ED9, \HEBA1>> >>
  ELSE IF i <= 59
  THEN <<BitOr(BitOr(BitAnd(b, c), BitAnd(b, d)), BitAnd(c, d)), <<\H8F1B, \HBCDC>> >>
  ELSE <<BitXor(BitXor(b, c), d), <<\HCA62, \HC1D6>> >>

\* One pass of the loop for i in 0..80 of Sha1::update on the registers
\* v = <<a, ..., e>>.
Sha1_round(v, words, i) ==
  CHOOSE m \in
    {<<wrapping_add(wrapping_add(wrapping_add(wrapping_add(
                      rotate_left(r[1], 5), fk[1]), r[5]), fk[2]),
                    words[i + 1]),
       r[1], rotate_left(r[2], 30), r[3], r[4]>>
     : r \in {v}, fk \in {Sha1_fk(i, v[2], v[3], v[4])}} : TRUE

RECURSIVE Sha1_rounds(_, _, _, _)
\* The rounds lo .. hi - 1 of that loop, in order.
Sha1_rounds(v, words, lo, hi) ==
  IF hi <= lo THEN v
  ELSE IF hi = lo + 1 THEN Sha1_round(v, words, lo)
  ELSE CHOOSE o \in {Sha1_rounds(n, words, (lo + hi) \div 2, hi)
                     : n \in {Sha1_rounds(v, words, lo, (lo + hi) \div 2)}} : TRUE

\* Sha1::update
Sha1_update(self, block) ==
  IF Len(block) # 64 THEN [self EXCEPT !.panic = TRUE]
  ELSE CHOOSE o \in
         {[h |-> LET f(j) == wrapping_add(self.h[j], v[j])
                 IN  <<f(1), f(2), f(3), f(4), f(5)>>,
           size |-> self.size + 512,
           absorbed |-> Append(self.absorbed, block),
           panic |-> FALSE]
          : v \in {Sha1_rounds(self.h, words, 0, 80)
                   : words \in {Sha1_words(
                        [i \in 1..16 |-> from_be_bytes(SubSeq(block, 4 * i - 3, 4 * i))],
                        16, 80)}}} : TRUE

\* The block or blocks that Sha1::do_final and Sha32::do_final give to update
\* after the full-block case: bytes with the tail and 0x80, a second zeroed
\* block if (64 - len) < 8, and ml written over the last eight bytes.
Legacy_pad_blocks(len, lblock, ml) ==
  LET bytes == [(lblock \o Zeroed(64 - len)) EXCEPT ![len + 1] = 128]
  IN  IF (64 - len) < 8
      THEN <<bytes, last_chunk_set(Zeroed(64), U64_to_be_bytes(ml))>>
      ELSE <<last_chunk_set(bytes, U64_to_be_bytes(ml))>>

\* The words of h written to out by do_final: cast_slice_mut panics unless out
\* is whole words, and out[i] panics past its end.
Legacy_write_out(h, nwords, out) ==
  IF Len(out) % 4 # 0 \/ Len(out) < 4 * nwords THEN [ok |-> FALSE, out |-> out]
  ELSE [ok  |-> TRUE,
        out |-> Concat([i \in 1..nwords |-> to_be_bytes(h[i])])
                  \o SubSeq(out, 4 * nwords + 1, Len(out))]

\* Sha1::do_final
Sha1_do_final(self, lblock, out) ==
  IF Len(lblock) > 64 THEN [self |-> [self EXCEPT !.panic = TRUE], out |-> out]
  ELSE CHOOSE o \in
         {CHOOSE p \in
            {CHOOSE q \in
               {[self |-> [s3 EXCEPT !.panic = s3.panic \/ ~w.ok], out |-> w.out]
                : w \in {Legacy_write_out(s3.h, 5, out)}} : TRUE
             : s3 \in {LET lb     == IF Len(lblock) = 64 THEN <<>> ELSE lblock
                           s2     == [s1 EXCEPT !.size = s1.size + Len(lb) * 8]
                           blocks == Legacy_pad_blocks(Len(lb), lb, s2.size)
                       IN  IF Len(blocks) = 2
                           THEN Sha1_update(Sha1_update(s2, blocks[1]), blocks[2])
                           ELSE Sha1_update(s2, blocks[1])}} : TRUE
          : s1 \in {IF Len(lblock) = 64 THEN Sha1_update(self, lblock) ELSE self}} : TRUE

\* The k of do_sha32_block: the same 64 words as the u32 ROUND_CONSTANTS.
do_sha32_block_k == ROUND_CONSTANTS_u32

RECURSIVE do_sha32_block_w(_, _, _)
\* The passes lo .. hi - 1 of the loop for i in 16..64 of do_sha32_block, in
\* order (w[i] at index i + 1).
do_sha32_block_w(w0, lo, hi) ==
  IF hi <= lo THEN w0
  ELSE IF hi = lo + 1
  THEN CHOOSE o \in
         {LET i  == lo
              s0 == BitXor(BitXor(rotate_right(w[i - 14], 7), rotate_right(w[i - 14], 18)),
                           Shr(w[i - 14], 3))
              s1 == BitXor(BitXor(rotate_right(w[i - 1], 17), rotate_right(w[i - 1], 19)),
                           Shr(w[i - 1], 10))
          IN  Append(w, wrapping_add(wrapping_add(wrapping_add(w[i - 15], s0), w[i - 6]), s1))
          : w \in {w0}} : TRUE
  ELSE CHOOSE o \in {do_sha32_block_w(n, (lo + hi) \div 2, hi)
                     : n \in {do_sha32_block_w(w0, lo, (lo + hi) \div 2)}} : TRUE

\* One pass of the loop for i in 0..64 of do_sha32_block on the registers
\* v = <<a, ..., g, l>>.
do_sha32_block_round(v, w, i) ==
  CHOOSE m \in
    {<<wrapping_add(temp1, temp2), v[1], v[2], v[3],
       wrapping_add(v[4], temp1), v[5], v[6], v[7]>>
     : temp1 \in {LET s1 == BitXor(BitXor(rotate_right(v[5], 6), rotate_right(v[5], 11)),
                                   rotate_right(v[5], 25))
                      ch == BitXor(BitAnd(v[5], v[6]), BitAnd(Not(v[5]), v[7]))
                  IN  wrapping_add(wrapping_add(wrapping_add(wrapping_add(
                        v[8], s1), ch), do_sha32_block_k[i + 1]), w[i + 1])},
       temp2 \in {LET s0  == BitXor(BitXor(rotate_right(v[1], 2), rotate_right(v[1], 13)),
                                    rotate_right(v[1], 22))
                      maj == BitXor(BitXor(BitAnd(v[1], v[2]), BitAnd(v[1], v[3])),
                                    BitAnd(v[2], v[3]))
                  IN  wrapping_add(s0, maj)}} : TRUE

RECURSIVE do_sha32_block_rounds(_, _, _, _)
\* The rounds lo .. hi - 1 of that loop, in order.
do_sha32_block_rounds(v, w, lo, hi) ==
  IF hi <= lo THEN v
  ELSE IF hi = lo + 1 THEN do_sha32_block_round(v, w, lo)
  ELSE CHOOSE o \in {do_sha32_block_rounds(n, w, (lo + hi) \div 2, hi)
                     : n \in {do_sha32_block_rounds(v, w, lo, (lo + hi) \div 2)}} : TRUE

\* do_sha32_block: the new h.
do_sha32_block(block, h) ==
  CHOOSE o \in
    {LET f(j) == wrapping_add(h[j], v[j])
     IN  <<f(1), f(2), f(3), f(4), f(5), f(6), f(7), f(8)>>
     : v \in {do_sha32_block_rounds(h, w, 0, 64)
              : w \in {do_sha32_block_w(
                         [i \in 1..16 |-> from_be_bytes(SubSeq(block, 4 * i - 3, 4 * i))],
                         16, 64)}}} : TRUE

\* Sha32::<BITS>::new and the h of Sha32::init
Sha32_new(BITS) ==
  [h |-> IF BITS = 224 THEN IV_Sha224 ELSE IV_Sha256,
   size |-> 0, absorbed |-> <<>>, panic |-> FALSE]

\* Sha32::update
Sha32_update(self, block) ==
  IF Len(block) % 4 # 0 \/ Len(block) < 64
  THEN [self EXCEPT !.size = Len(block) * 8, !.panic = TRUE]
  ELSE [h |-> do_sha32_block(block, self.h),
        size |-> Len(block) * 8,
        absorbed |-> Append(self.absorbed, block),
        panic |-> FALSE]

\* Sha32::do_final
Sha32_do_final(BITS, self, lblock, out) ==
  IF Len(lblock) > 64 THEN [self |-> [self EXCEPT !.panic = TRUE], out |-> out]
  ELSE CHOOSE o \in
         {CHOOSE p \in
            {CHOOSE q \in
               {[self |-> [s3 EXCEPT !.panic = s3.panic \/ ~w.ok], out |-> w.out]
                : w \in {Legacy_write_out(s3.h, BITS \div 32, out)}} : TRUE
             : s3 \in {LET lb     == IF Len(lblock) = 64 THEN <<>> ELSE lblock
                           s2     == [s1 EXCEPT !.size = s1.size + Len(lb) * 8]
                           blocks == Legacy_pad_blocks(Len(lb), lb, s2.size)
                       IN  IF Len(blocks) = 2
                           THEN Sha32_update(Sha32_update(s2, blocks[1]), blocks[2])
                           ELSE Sha32_update(s2, blocks[1])}} : TRUE
          : s1 \in {IF Len(lblock) = 64 THEN Sha32_update(self, lblock) ELSE self}} : TRUE

(***************************************************************************)
(* The legacy Digest trait (src/digest.rs) over D, "Sha1", "Sha32<256>" or *)
(* "Sha32<224>", its driver, and Hmac<D>.                                  *)
(***************************************************************************)
BLOCK_SIZE(D) == 64

OUTPUT_SIZE(D) == IF D = "Sha1" THEN 20 ELSE IF D = "Sha32<224>" THEN 224 \div 8 ELSE 256 \div 8

\* Digest::init
Digest_init(D, self) ==
  IF D = "Sha1" THEN Sha1_new
  ELSE IF D = "Sha32<224>" THEN Sha32_new(224) ELSE Sha32_new(256)

\* Digest::update
Digest_update(D, self, block) ==
  IF self.panic THEN self
  ELSE IF D = "Sha1" THEN Sha1_update(self, block) ELSE Sha32_update(self, block)

\* Digest::do_final
Digest_do_final(D, self, lblock, out) ==
  IF self.panic THEN [self |-> self, out |-> out]
  ELSE IF D = "Sha1" THEN Sha1_do_final(self, lblock, out)
  ELSE IF D = "Sha32<224>" THEN Sha32_do_final(224, self, lblock, out)
  ELSE Sha32_do_final(256, self, lblock, out)

\* slice::chunks
chunks(sl, n) ==
  [k \in 1..((Len(sl) + n - 1) \div n) |->
      SubSeq(sl, (k - 1) * n + 1, IF k * n < Len(sl) THEN k * n ELSE Len(sl))]

RECURSIVE Digest_update_all(_, _, _)
\* for block in x { digest.update(block) }
Digest_update_all(D, self, x) ==
  IF x = <<>> THEN self
  ELSE CHOOSE o \in
         {Digest_update_all(D, n, Tail(x)) : n \in {Digest_update(D, self, Head(x))}} : TRUE

\* The update of every block of x but the last, then do_final on the last (or
\* on the empty block).
Digest_all_but_last(D, self, x, out) ==
  IF Len(x) = 0 THEN Digest_do_final(D, self, <<>>, out)
  ELSE Digest_do_final(D, Digest_update_all(D, self, SubSeq(x, 1, Len(x) - 1)), x[Len(x)], out)

\* digest(digest, bytes, out)
digest_legacy(D, self, bytes, out) ==
  Digest_all_but_last(D, Digest_init(D, self), chunks(bytes, BLOCK_SIZE(D)), out)

\* The bytes of sl, each XORed with b.
XorBytes(sl, b) == [i \in 1..Len(sl) |-> ByteXor(sl[i], b)]

\* Hmac::new
Hmac_new(D, digest, key) ==
  IF Len(key) <= BLOCK_SIZE(D)
  THEN [digest |-> digest, key |-> key \o Zeroed(BLOCK_SIZE(D) - Len(key)), panic |-> FALSE]
  ELSE CHOOSE o \in
         {[digest |-> r.self,
           key    |-> r.out \o Zeroed(BLOCK_SIZE(D) - OUTPUT_SIZE(D)),
           panic  |-> r.self.panic]
          : r \in {digest_legacy(D, digest, key, Zeroed(OUTPUT_SIZE(D)))}} : TRUE

\* Hmac::init
Hmac_init(D, self) ==
  CHOOSE o \in
    {[digest |-> d, key |-> XorBytes(XorBytes(self.key, 54), ByteXor(54, 92)), panic |-> d.panic]
     : d \in {Digest_update(D, Digest_init(D, self.digest), XorBytes(self.key, 54))}} : TRUE

\* Hmac::update
Hmac_update(D, self, block) ==
  CHOOSE o \in
    {[self EXCEPT !.digest = d, !.panic = d.panic]
     : d \in {Digest_update(D, self.digest, block)}} : TRUE

\* Hmac::do_final
Hmac_do_final(D, self, lblock, output) ==
  CHOOSE o \in
    {CHOOSE p \in
       {[self |-> [digest |-> r.self, key |-> XorBytes(self.key, 92), panic |-> r.self.panic],
         out  |-> r.out]
        : r \in {Digest_all_but_last(D, Digest_init(D, tmp.self),
                                     chunks(self.key, BLOCK_SIZE(D))
                                       \o chunks(tmp.out, BLOCK_SIZE(D)),
                                     output)}} : TRUE
     : tmp \in {Digest_do_final(D, self.digest, lblock, Zeroed(BLOCK_SIZE(D)))}} : TRUE

(***************************************************************************)
(* HMac<U> (lc-crypto-digest/src/mac.rs).                                  *)
(***************************************************************************)
\* HMac::new_with_key, for U::Block of LEN bytes.
HMac_new_with_key(LEN, inner, outer, key) ==
  CHOOSE o \in
    {[inner |-> inner, outer |-> outer, key |-> k, panic |-> k.panic]
     : k \in {BaseArrayVec_from_slice(LEN, key, "Secret")}} : TRUE

(***************************************************************************)
(* The RawDigest implementations (lc-crypto-primitives/src/digest.rs) by   *)
(* type name.                                                              *)
(***************************************************************************)
\* The type aliases of the SHA-2 engine: word type, BITS, Output length, IV.
Sha2Type(alg) ==
  CASE alg = "Sha512"     -> [W |-> "u64", BITS |-> 512, OLEN |-> 64, iv |-> IV_Sha512]
    [] alg = "Sha384"     -> [W |-> "u64", BITS |-> 384, OLEN |-> 48, iv |-> IV_Sha384]
    [] alg = "Sha256"     -> [W |-> "u32", BITS |-> 256, OLEN |-> 32, iv |-> IV_Sha256]
    [] alg = "Sha224"     -> [W |-> "u32", BITS |-> 224, OLEN |-> 28, iv |-> IV_Sha224]
    [] alg = "Sha512_256" -> [W |-> "u64", BITS |-> 256, OLEN |-> 32, iv |-> IV_Sha512_256]
    [] alg = "Sha512_224" -> [W |-> "u64", BITS |-> 224, OLEN |-> 28, iv |-> IV_Sha512_224]

Sha2Algs == {"Sha512", "Sha384", "Sha256", "Sha224", "Sha512_256", "Sha512_224"}

KeccackAlgs == {"Sha3_256", "Shake128", "RawShake128"}

\* RawDigest::Block::LEN
Block_LEN(alg) ==
  IF alg \in Sha2Algs THEN Sha2_BlockLen(Sha2Type(alg).W)
  ELSE IF alg \in KeccackAlgs THEN KeccackSpec(alg).Rate
  ELSE 64

\* D::new() / D::default()
RawDigest_new(alg) ==
  IF alg \in Sha2Algs THEN Sha2_new_with_iv(Sha2Type(alg).iv)
  ELSE IF alg \in KeccackAlgs THEN Keccack_new
  ELSE RawSha1_new

\* RawDigest::raw_update
RawDigest_raw_update(alg, self, block) ==
  IF alg \in Sha2Algs THEN Sha2_raw_update(Sha2Type(alg).W, self, block)
  ELSE IF alg \in KeccackAlgs THEN Keccack_raw_update(alg, self, block)
  ELSE RawSha1_raw_update(self, block)

\* RawDigest::raw_update_final
RawDigest_raw_update_final(alg, self, rest) ==
  IF alg \in Sha2Algs THEN Sha2_raw_update_final(Sha2Type(alg).W, self, rest)
  ELSE IF alg \in KeccackAlgs THEN Keccack_raw_update_final(alg, self, rest)
  ELSE RawSha1_raw_update_final(self, rest)

\* RawDigest::finish
RawDigest_finish(alg, self) ==
  IF alg \in Sha2Algs THEN Sha2_finish(self, Sha2Type(alg).BITS, Sha2Type(alg).OLEN)
  ELSE IF alg \in KeccackAlgs THEN Keccack_finish(alg, self)
  ELSE RawSha1_finish(self)

(***************************************************************************)
(* The state.                                                              *)
(*   alg    the type of the digest object                                  *)
(*   dg     the digest object                                              *)
(*   calls  the calls made on it so far, each [op, arg]                    *)
(*   outs   the outputs those calls returned, in order                     *)
(*   input  the byte string given to the driver, or the key given to the   *)
(*          HMAC constructor                                               *)
(*   drv    the position of the top-level driver: the chunks it has still  *)
(*          to pass to update, the remainder, and what it returned         *)
(***************************************************************************)
VARIABLES alg, dg, calls, outs, input, drv

vars == <<alg, dg, calls, outs, input, drv>>

\* The bound on the number of calls made on one object.
MaxCalls == 3

\* Input bytes: n bytes that differ from their neighbours, the k-th such string.
Msg(k, n) == [i \in 1..n |-> (7 * i + 3 * k) % 256]

Idle == [pc |-> "idle", chunks |-> <<>>, rem |-> <<>>, ret |-> <<>>]

Call(op, arg) == [op |-> op, arg |-> arg]

(***************************************************************************)
(* Spec: the RawDigest engines, called in any order.                       *)
(***************************************************************************)
RawAlgs == {"Sha256", "Sha512", "raw::Sha1", "Sha3_256", "Shake128", "RawShake128"}

\* The blocks given to raw_update.
RawBlocks(a) == {Msg(1, Block_LEN(a))}

\* The tails given to raw_update_final: empty, short, the last length that
\* leaves room for the length field, the first that does not, and a full block.
RawTails(a) ==
  IF a \in Sha2Algs \/ a = "raw::Sha1"
  THEN {Msg(2, n) : n \in {0, 3, Block_LEN(a) - 18, Block_LEN(a) - 9, Block_LEN(a)}}
  ELSE {Msg(2, n) : n \in {0, 3, Block_LEN(a)}}

Init ==
  /\ alg \in RawAlgs
  /\ dg = RawDigest_new(alg)
  /\ calls = <<>>
  /\ outs = <<>>
  /\ input = <<>>
  /\ drv = Idle

RawUpdate(block) ==
  /\ ~dg.panic
  /\ Len(calls) < MaxCalls
  /\ dg' = RawDigest_raw_update(alg, dg, block)
  /\ calls' = Append(calls, Call("raw_update", block))
  /\ UNCHANGED <<alg, outs, input, drv>>

RawUpdateFinal(rest) ==
  /\ ~dg.panic
  /\ Len(calls) < MaxCalls
  /\ dg' = RawDigest_raw_update_final(alg, dg, rest)
  /\ calls' = Append(calls, Call("raw_update_final", rest))
  /\ UNCHANGED <<alg, outs, input, drv>>

Finish ==
  /\ ~dg.panic
  /\ Len(calls) < MaxCalls
  /\ \E r \in {RawDigest_finish(alg, dg)} :
       /\ dg' = r.self
       /\ outs' = Append(outs, r.output)
  /\ calls' = Append(calls, Call("finish", <<>>))
  /\ UNCHANGED <<alg, input, drv>>

Next ==
  \/ \E block \in RawBlocks(alg) : RawUpdate(block)
  \/ \E rest \in RawTails(alg) : RawUpdateFinal(rest)
  \/ Finish

Spec == Init /\ [][Next]_vars

(***************************************************************************)
(* SpecDriver: the top-level driver digest() of lc-crypto-digest/src/lib.rs *)
(* over one SecretDigest, one statement at a time.                         *)
(***************************************************************************)
DriverAlgs == Sha2Algs \cup {"raw::Sha1", "Sha3_256"}

\* The input lengths around the padding boundaries of a digest of block
\* length B.
DriverLens(B) == {0, B - 9, B - 8, B, B + 1, 2 * B - 9, 2 * B}

InitDriver ==
  /\ alg \in DriverAlgs
  /\ dg = RawDigest_new(alg)
  /\ calls = <<>>
  /\ outs = <<>>
  /\ input \in {Msg(1, n) : n \in DriverLens(Block_LEN(alg))}
  /\ drv = [pc |-> "start", chunks |-> <<>>, rem |-> <<>>, ret |-> <<>>]

\* let input = bytes.array_chunks::<D::Block>(); let rem = input.remainder();
DriverChunk ==
  /\ drv.pc = "start"
  /\ \E c \in {array_chunks(Block_LEN(alg), input)} :
       drv' = [drv EXCEPT !.pc = "loop", !.chunks = c.chunks, !.rem = c.remainder]
  /\ UNCHANGED <<alg, dg, calls, outs, input>>

\* for block in input { digest.update(block)?; }, one pass; SecretDigest::update
\* is raw_update.
DriverUpdate ==
  /\ drv.pc = "loop"
  /\ drv.chunks # <<>>
  /\ dg' = RawDigest_raw_update(alg, dg, Head(drv.chunks))
  /\ calls' = Append(calls, Call("raw_update", Head(drv.chunks)))
  /\ drv' = [drv EXCEPT !.pc = IF dg'.panic THEN "panicked" ELSE "loop",
                        !.chunks = Tail(drv.chunks)]
  /\ UNCHANGED <<alg, outs, input>>

\* digest.update_final(rem)?; SecretDigest::update_final is raw_update_final.
DriverUpdateFinal ==
  /\ drv.pc = "loop"
  /\ drv.chunks = <<>>
  /\ dg' = RawDigest_raw_update_final(alg, dg, drv.rem)
  /\ calls' = Append(calls, Call("raw_update_final", drv.rem))
  /\ drv' = [drv EXCEPT !.pc = IF dg'.panic THEN "panicked" ELSE "finish"]
  /\ UNCHANGED <<alg, outs, input>>

\* digest.finish()
DriverFinish ==
  /\ drv.pc = "finish"
  /\ \E r \in {RawDigest_finish(alg, dg)} :
       /\ dg' = r.self
       /\ outs' = Append(outs, r.output)
       /\ drv' = [drv EXCEPT !.pc = "done", !.ret = r.output]
  /\ calls' = Append(calls, Call("finish", <<>>))
  /\ UNCHANGED <<alg, input>>

NextDriver == DriverChunk \/ DriverUpdate \/ DriverUpdateFinal \/ DriverFinish

SpecDriver == InitDriver /\ [][NextDriver]_vars

(***************************************************************************)
(* SpecLegacy: the legacy Digest objects of src/digest.rs (Sha1, Sha32 and  *)
(* Hmac over Sha1) and HMac of lc-crypto-digest/src/mac.rs: construction,   *)
(* then init, update and do_final in any order.                            *)
(***************************************************************************)
LegacyAlgs == {"Sha1", "Sha32<256>", "Hmac<Sha1>", "HMac<Sha256>"}

\* The keys given to the HMAC constructors: b"key", a key of one block, and a
\* key one byte longer than a block.
Keys == {<<107, 101, 121>>, Msg(3, 64), Msg(3, 65)}

\* b"The quick brown fox jumps over the lazy dog"
Fox ==
  <<84, 104, 101, 32, 113, 117, 105, 99, 107, 32, 98, 114, 111, 119, 110, 32, 102,
    111, 120, 32, 106, 117, 109, 112, 115, 32, 111, 118, 101, 114, 32, 116, 104,
    101, 32, 108, 97, 122, 121, 32, 100, 111, 103>>

\* The blocks given to update and the last blocks given to do_final: the
\* empty tail, a short one, and one that leaves exactly eight bytes of the
\* block free.
LegacyBlocks == {Msg(1, 64)}

LegacyTails == {<<>>, Fox, Msg(2, 56)}

InitLegacy ==
  /\ alg \in LegacyAlgs
  /\ dg = [panic |-> FALSE]
  /\ calls = <<>>
  /\ outs = <<>>
  /\ input \in IF alg \in {"Hmac<Sha1>", "HMac<Sha256>"} THEN Keys ELSE {<<>>}
  /\ drv = Idle

\* Sha1::new(), Sha32::<256>::new(), Hmac::new(Sha1::new(), key),
\* HMac::new_with_key(Sha256::new(), Sha256::new(), key)
New ==
  /\ calls = <<>>
  /\ dg' = CASE alg = "Sha1" -> Sha1_new
             [] alg = "Sha32<256>" -> Sha32_new(256)
             [] alg = "Hmac<Sha1>" -> Hmac_new("Sha1", Sha1_new, input)
             [] alg = "HMac<Sha256>" ->
                  HMac_new_with_key(Block_LEN("Sha256"), RawDigest_new("Sha256"),
                                    RawDigest_new("Sha256"), input)
  /\ calls' = <<Call("new", input)>>
  /\ UNCHANGED <<alg, outs, input, drv>>

\* Whether a call of the Digest trait can be made on the object.
Callable ==
  /\ calls # <<>>
  /\ alg # "HMac<Sha256>"
  /\ ~dg.panic
  /\ Len(calls) <= MaxCalls

\* Digest::init
LegacyInit ==
  /\ Callable
  /\ dg' = IF alg = "Hmac<Sha1>" THEN Hmac_init("Sha1", dg) ELSE Digest_init(alg, dg)
  /\ calls' = Append(calls, Call("init", <<>>))
  /\ UNCHANGED <<alg, outs, input, drv>>

\* Digest::update
LegacyUpdate(block) ==
  /\ Callable
  /\ dg' = IF alg = "Hmac<Sha1>" THEN Hmac_update("Sha1", dg, block)
           ELSE Digest_update(alg, dg, block)
  /\ calls' = Append(calls, Call("update", block))
  /\ UNCHANGED <<alg, outs, input, drv>>

\* Digest::do_final into a zeroed buffer of OUTPUT_SIZE bytes
LegacyDoFinal(lblock) ==
  /\ Callable
  /\ \E r \in {IF alg = "Hmac<Sha1>"
               THEN Hmac_do_final("Sha1", dg, lblock, Zeroed(OUTPUT_SIZE("Sha1")))
               ELSE Digest_do_final(alg, dg, lblock, Zeroed(OUTPUT_SIZE(alg)))} :
       /\ dg' = r.self
       /\ outs' = Append(outs, r.out)
  /\ calls' = Append(calls, Call("do_final", lblock))
  /\ UNCHANGED <<alg, input, drv>>

NextLegacy ==
  \/ New
  \/ LegacyInit
  \/ \E block \in LegacyBlocks : LegacyUpdate(block)
  \/ \E lblock \in LegacyTails : LegacyDoFinal(lblock)

SpecLegacy == InitLegacy /\ [][NextLegacy]_vars

(***************************************************************************)
(* Reference functions of the properties: FIPS 180-4 padding and digests,  *)
(* HMAC (RFC 2104) and the sponge's squeeze stream.  They are built from   *)
(* the compression functions and the permutation above and from nothing    *)
(* else of the code.                                                       *)
(***************************************************************************)
\* The consecutive B-byte blocks of a string whose length is a multiple of B.
BlocksOf(M, B) == [k \in 1..(Len(M) \div B) |-> SubSeq(M, (k - 1) * B + 1, k * B)]

\* FIPS 180-4 padding of M to blocks of B bytes with a length field of LF bytes.
FipsPad(M, B, LF) ==
  M \o <<128>> \o Zeroed((B - ((Len(M) + 1 + LF) % B)) % B)
    \o Zeroed(LF - 8) \o U64_to_be_bytes(Len(M) * 8)

RECURSIVE RefAbsorb(_, _, _)
\* The digest state s of D ("Sha1" or a SHA-2 name) after the blocks bs.
RefAbsorb(D, s, bs) ==
  IF bs = <<>> THEN s
  ELSE CHOOSE o \in
         {RefAbsorb(D, n, Tail(bs))
          : n \in {IF D = "Sha1" THEN Sha1_update(s, Head(bs))
                   ELSE Sha2_raw_update(Sha2Type(D).W, s, Head(bs))}} : TRUE

\* The FIPS 180-4 digest of M under D.
RefDigest(D, M) ==
  IF D = "Sha1"
  THEN LET s == RefAbsorb(D, Sha1_new, BlocksOf(FipsPad(M, 64, 8), 64))
       IN  to_be_bytes(s.h[1]) \o to_be_bytes(s.h[2]) \o to_be_bytes(s.h[3])
             \o to_be_bytes(s.h[4]) \o to_be_bytes(s.h[5])
  ELSE LET W == Sha2Type(D).W
           s == RefAbsorb(D, Sha2_new_with_iv(Sha2Type(D).iv),
                          BlocksOf(FipsPad(M, Sha2_BlockLen(W), 2 * size_of(W)),
                                   Sha2_BlockLen(W)))
       IN  Sha2_finish(s, Sha2Type(D).BITS, Sha2Type(D).OLEN).output

\* The B-byte key K' that HMAC over D derives from K.
DerivedKey(D, B, K) ==
  IF Len(K) <= B THEN K \o Zeroed(B - Len(K))
  ELSE CHOOSE k \in {d \o Zeroed(B - Len(d)) : d \in {RefDigest(D, K)}} : TRUE

\* HMAC over D of M under K, for a block of B bytes.
RefHmac(D, B, K, M) ==
  CHOOSE o \in
    {RefDigest(D, XorBytes(k, 92) \o RefDigest(D, XorBytes(k, 54) \o M))
     : k \in {DerivedKey(D, B, K)}} : TRUE

RECURSIVE SqueezeStream(_, _, _)
\* The first n bytes squeezed from the sponge state: Rate bytes of the state,
\* then the stream of the permuted state.
SqueezeStream(S, state, n) ==
  IF n <= KeccackSpec(S).Rate THEN SubSeq(state_bytes(state), 1, n)
  ELSE SubSeq(state_bytes(state), 1, KeccackSpec(S).Rate)
         \o SqueezeStream(S, permute_state(S, state), n - KeccackSpec(S).Rate)

RECURSIVE KeccackReplay(_, _, _)
\* The Keccack object after raw_update on the blocks bs.
KeccackReplay(S, s, bs) ==
  IF bs = <<>> THEN s
  ELSE CHOOSE o \in
         {KeccackReplay(S, n, Tail(bs)) : n \in {Keccack_raw_update(S, s, Head(bs))}} : TRUE

\* The expected digest of sha256_test_empty.
Sha256_test_empty ==
  <<227, 176, 196, 66, 152, 252, 28, 20, 154, 251, 244, 200, 153, 111, 185, 36,
    39, 174, 65, 228, 100, 155, 147, 76, 164, 149, 153, 27, 120, 82, 184, 85>>

\* The expected MAC of hmac_sha1_test_smart.
Hmac_sha1_test_smart ==
  <<222, 124, 155, 133, 184, 183, 138, 166, 188, 138, 122, 54, 247, 10, 144, 112,
    28, 157, 180, 217>>

\* The last call made, and the number of calls at the end of the log that
\* are op.
LastCall == calls[Len(calls)]

RECURSIVE Trailing(_, _)
Trailing(cs, op) ==
  IF cs = <<>> \/ cs[Len(cs)].op # op THEN 0
  ELSE 1 + Trailing(SubSeq(cs, 1, Len(cs) - 1), op)

\* This step is the call op(arg) on the digest object.
Called(op, arg) == calls' = Append(calls, Call(op, arg))

(***************************************************************************)
(* The properties.                                                         *)
(***************************************************************************)
\* C1: for each digest of the SHA-1/SHA-2 family and every input, the
\* top-level driver returns (it does not abort) and what it returns is the
\* FIPS 180-4 digest of the input; SHA-256 of the empty input is e3b0c442...
C1_DriverDigest ==
  (alg \in Sha2Algs \cup {"raw::Sha1"} /\ drv.pc \in {"done", "panicked"}) =>
    /\ drv.pc = "done"
    /\ drv.ret = RefDigest(IF alg = "raw::Sha1" THEN "Sha1" ELSE alg, input)
    /\ (alg = "Sha256" /\ input = <<>>) => drv.ret = Sha256_test_empty

\* The calls the driver is to make on an input: raw_update on each
\* consecutive full block, raw_update_final on the rest, finish.
DriverCalls(M, B) ==
  [k \in 1..(Len(M) \div B) |-> Call("raw_update", SubSeq(M, (k - 1) * B + 1, k * B))]
    \o <<Call("raw_update_final", SubSeq(M, Len(M) - (Len(M) % B) + 1, Len(M))),
         Call("finish", <<>>)>>

\* C2: the driver's calls are, in order, raw_update on the floor(n/B) full
\* blocks of the input, one raw_update_final on the trailing n mod B bytes and
\* one finish, whose output it returns; every run of the driver gets there.
C2_DriverCalls ==
  /\ Len(calls) <= Len(DriverCalls(input, Block_LEN(alg)))
  /\ calls = SubSeq(DriverCalls(input, Block_LEN(alg)), 1, Len(calls))
  /\ drv.pc \in {"done", "panicked"} =>
       /\ drv.pc = "done"
       /\ calls = DriverCalls(input, Block_LEN(alg))
       /\ outs = <<drv.ret>>

\* The padded data C3 describes for a tail rest after C committed bytes: rest,
\* 0x80, zeros, and the 8-byte big-endian bit count at the end of the last
\* block; one block if |rest| < B - (2 * sizeof(word) + 1), else two.
C3_Padded(W, C, rest) ==
  LET B == Sha2_BlockLen(W)
      n == IF Len(rest) < B - (2 * size_of(W) + 1) THEN 1 ELSE 2
  IN  BlocksOf(rest \o <<128>> \o Zeroed(n * B - Len(rest) - 9)
                 \o U64_to_be_bytes((C + Len(rest)) * 8), B)

\* C3: Sha2::raw_update_final on a tail shorter than a block compresses
\* exactly the blocks of the padded data: the tail, 0x80, zeros, the 8-byte
\* big-endian bit count; one block or two by the tail's length.
C3_FinalPadding ==
  [][\A rest \in RawTails(alg) :
       (alg \in Sha2Algs /\ Called("raw_update_final", rest) /\ Len(rest) < Block_LEN(alg)) =>
         /\ ~dg'.panic
         /\ dg'.absorbed
              = dg.absorbed \o C3_Padded(Sha2Type(alg).W, dg.byte_count, rest)]_vars

\* C4: for SHA-2 and the raw SHA-1 engine, raw_update_final on a tail of
\* exactly one block absorbs that block before the padding block, and leaves
\* the digest with the output that raw_update on the block followed by
\* raw_update_final on the empty tail leaves.
C4_FullBlockTail ==
  [][\A rest \in RawTails(alg) :
       (/\ alg \in Sha2Algs \cup {"raw::Sha1"}
        /\ Called("raw_update_final", rest)
        /\ Len(rest) = Block_LEN(alg)) =>
         /\ ~dg'.panic
         /\ Len(dg'.absorbed) = Len(dg.absorbed) + 2
         /\ dg'.absorbed[Len(dg.absorbed) + 1] = rest
         /\ \E two \in {RawDigest_raw_update_final(
                          alg, RawDigest_raw_update(alg, dg, rest), <<>>)} :
              /\ ~two.panic
              /\ RawDigest_finish(alg, dg').output = RawDigest_finish(alg, two).output]_vars

\* C5: after k full-block updates from the initial state (after new or
\* init) the legacy digest's bit counter is 8 * k * B.
C5_Counter ==
  (/\ alg \in {"Sha1", "Sha32<256>"}
   /\ calls # <<>>
   /\ calls[Len(calls) - Trailing(calls, "update")].op \in {"new", "init"}) =>
    dg.size = 8 * Trailing(calls, "update") * BLOCK_SIZE(alg)

\* The message of an init, update*, do_final run: the blocks given to update,
\* then the last block.
RECURSIVE RunMessage(_)
RunMessage(cs) ==
  IF cs = <<>> THEN <<>>
  ELSE (IF Head(cs).op \in {"update", "do_final"} THEN Head(cs).arg ELSE <<>>)
         \o RunMessage(Tail(cs))

\* C6: new, init, update on full blocks, do_final on an Hmac returns the HMAC
\* of the message under the key; key "key" over the fox sentence gives
\* de7c9b85b8b78aa6bc8a7a36f70a90701c9db4d9.
C6_Hmac ==
  (/\ alg = "Hmac<Sha1>"
   /\ Len(calls) >= 3
   /\ calls[2].op = "init"
   /\ LastCall.op = "do_final"
   /\ \A i \in 3..(Len(calls) - 1) : calls[i].op = "update") =>
    /\ ~dg.panic
    /\ outs = <<RefHmac("Sha1", BLOCK_SIZE("Sha1"), input, RunMessage(calls))>>
    /\ (input = <<107, 101, 121>> /\ RunMessage(calls) = Fox) =>
         outs = <<Hmac_sha1_test_smart>>

\* C7: HMAC construction (Hmac::new and HMac::new_with_key) derives the
\* B-byte key K': K then zeros if |K| <= B, else D(K) then zeros.
C7_DerivedKey ==
  /\ (alg = "Hmac<Sha1>" /\ calls # <<>>) =>
       (Len(calls) = 1 =>
          /\ ~dg.panic
          /\ dg.key = DerivedKey("Sha1", BLOCK_SIZE("Sha1"), input))
  /\ (alg = "HMac<Sha256>" /\ calls # <<>>) =>
       /\ ~dg.panic
       /\ BaseArrayVec_into_inner(dg.key) = DerivedKey("Sha256", Block_LEN("Sha256"), input)

\* C8: on one Hmac, whatever calls came before, every init absorbs
\* K' XOR 0x36.. as the first inner block and every do_final absorbs
\* K' XOR 0x5c.. as the first outer block, K' being the key derived at
\* construction.
C8_KeyBlocks ==
  (alg = "Hmac<Sha1>" /\ Len(calls) >= 2 /\ ~dg.panic) =>
    /\ LastCall.op = "init" =>
         dg.digest.absorbed
           = <<XorBytes(DerivedKey("Sha1", BLOCK_SIZE("Sha1"), input), 54)>>
    /\ LastCall.op = "do_final" =>
         dg.digest.absorbed[1] = XorBytes(DerivedKey("Sha1", BLOCK_SIZE("Sha1"), input), 92)

\* finish leaves the digest as it was, and a finish that follows a finish
\* returns the output the first returned.
FinishPure ==
  Called("finish", <<>>) =>
    /\ dg' = dg
    /\ (calls # <<>> /\ LastCall.op = "finish") => outs'[Len(outs')] = outs[Len(outs)]

C10_XofStream ==
  (/\ alg = "Shake128"
   /\ ~dg.panic
   /\ Trailing(calls, "finish") >= 1
   /\ Len(calls) > Trailing(calls, "finish")
   /\ calls[Len(calls) - Trailing(calls, "finish")].op = "raw_update_final"
   /\ Len(outs) = Trailing(calls, "finish")) =>
    Concat(outs)
      = SqueezeStream(alg, KeccackReplay(alg, Keccack_new, dg.absorbed).state,
                      Len(outs) * KeccackSpec(alg).Output)

(***************************************************************************)
(* Constant-time comparison (src/asm.rs, src/cmp.rs and                    *)
(* lc-crypto-primitives/src/cmp.rs).  Every comparison returns what it     *)
(* returned (kind, val) and the memory reads it made, in order.            *)
(***************************************************************************)
\* eq_bytes_secure with setne in place of cmovne: every chunk overwrites the
\* flag, so only the last chunk compared decides.
eq_bytes_secure_setne(a, b, len) ==
  LET last == IF len % 8 = 0 THEN 8
              ELSE IF len % 2 = 1 THEN 1
              ELSE IF len % 4 = 2 THEN 2
              ELSE 4
  IN  [ret |-> len = 0 \/ SubSeq(a, len - last + 1, len) = SubSeq(b, len - last + 1, len),
       reads |-> <<>>]

\* asm::eq_bytes_secure, the x86_64 routine: rax is cleared, then set to 1
\* (cmovne) by every chunk that compares unequal.  The loop at 2: compares
\* 8-byte chunks while rcx >= 8, then at most one chunk of 4, 2 and 1 bytes.
\* A chunk is compared as one machine word, so it is unequal exactly when
\* its bytes are not all equal.
eq_bytes_secure(a, b, len) ==
  LET n8 == len \div 8
      r8 == len - 8 * n8
      t4 == IF r8 >= 4 THEN 1 ELSE 0
      r4 == r8 - 4 * t4
      t2 == IF r4 >= 2 THEN 1 ELSE 0
      r2 == r4 - 2 * t2
      t1 == IF r2 >= 1 THEN 1 ELSE 0
      visited == [k \in 1..n8 |-> [off |-> 8 * (k - 1), w |-> 8]]
                \o (IF t4 = 1 THEN <<[off |-> 8 * n8, w |-> 4]>> ELSE <<>>)
                \o (IF t2 = 1 THEN <<[off |-> 8 * n8 + 4 * t4, w |-> 2]>> ELSE <<>>)
                \o (IF t1 = 1 THEN <<[off |-> 8 * n8 + 4 * t4 + 2 * t2, w |-> 1]>> ELSE <<>>)
      ne(c) == SubSeq(a, c.off + 1, c.off + c.w) # SubSeq(b, c.off + 1, c.off + c.w)
      rax == IF \E k \in 1..Len(visited) : ne(visited[k]) THEN 1 ELSE 0
  IN  [ret |-> ~(rax # 0),
       reads |-> [j \in 1..(2 * Len(visited)) |->
                    [of |-> IF j % 2 = 1 THEN "a" ELSE "b",
                     off |-> visited[(j + 1) \div 2].off,
                     w |-> visited[(j + 1) \div 2].w]]]

\* cmp::eq with the short-circuit && in place of &: nothing is read after the
\* first pair of unequal bytes.
cmp_eq_short(a, b) ==
  IF Len(a) # Len(b) THEN [kind |-> "panic", val |-> FALSE, reads |-> <<>>]
  ELSE LET stop == IF a = b THEN Len(a)
                   ELSE CHOOSE i \in 1..Len(a) : a[i] # b[i] /\ \A j \in 1..(i - 1) : a[j] = b[j]
       IN  [kind |-> "bool",
            val |-> a = b,
            reads |-> [j \in 1..(2 * stop) |->
                         [of |-> IF j % 2 = 1 THEN "a" ELSE "b",
                          off |-> ((j + 1) \div 2) - 1,
                          w |-> 1]]]

\* cmp::eq (src/cmp.rs): the assertion on the lengths, then ret = ret & (a[i] == b[i])
\* for every i, with the non-short-circuit &.
cmp_eq(a, b) ==
  IF Len(a) # Len(b) THEN [kind |-> "panic", val |-> FALSE, reads |-> <<>>]
  ELSE [kind |-> "bool",
        val |-> \A i \in 1..Len(a) : a[i] = b[i],
        reads |-> [j \in 1..(2 * Len(a)) |->
                     [of |-> IF j % 2 = 1 THEN "a" ELSE "b",
                      off |-> ((j + 1) \div 2) - 1,
                      w |-> 1]]]

\* checked_bytes_eq_secure without the length check: the bytes both strings
\* have are compared.
checked_bytes_eq_secure_min(a, b) ==
  LET len == IF Len(a) < Len(b) THEN Len(a) ELSE Len(b)
      r == eq_bytes_secure(a, b, len)
  IN  [kind |-> "Ok", val |-> r.ret, reads |-> r.reads]

\* cmp::checked_bytes_eq_secure
checked_bytes_eq_secure(a, b) ==
  IF Len(a) # Len(b) THEN [kind |-> "Err", val |-> FALSE, reads |-> <<>>]
  ELSE LET r == eq_bytes_secure(a, b, Len(a))
       IN  [kind |-> "Ok", val |-> r.ret, reads |-> r.reads]

\* cmp::bytes_eq_secure: checked_bytes_eq_secure(a, b).ok().expect(..)
bytes_eq_secure(a, b) ==
  LET r == checked_bytes_eq_secure(a, b)
  IN  IF r.kind = "Err" THEN [r EXCEPT !.kind = "panic"] ELSE [r EXCEPT !.kind = "bool"]

\* eq_bytes_secure_impl (lc-crypto-primitives/src/cmp/asm.rs), the x86_64
\* routine: as eq_bytes_secure, with a loop over 16-byte chunks in front.  The
\* loop loads the chunk of a into xmm0 and the chunk of b into xmm1 and sets
\* rax by cmovnc after ptest xmm0, xmm1, that is when CF = 0: when
\* xmm1 AND NOT xmm0 is not zero.  Then at most one chunk of 8, 4, 2 and 1
\* bytes, each compared as a machine word with cmovne.
eq_bytes_secure_impl(a, b, len) ==
  LET n16 == len \div 16
      r16 == len - 16 * n16
      t8  == IF r16 >= 8 THEN 1 ELSE 0
      r8  == r16 - 8 * t8
      t4  == IF r8 >= 4 THEN 1 ELSE 0
      r4  == r8 - 4 * t4
      t2  == IF r4 >= 2 THEN 1 ELSE 0
      r2  == r4 - 2 * t2
      t1  == IF r2 >= 1 THEN 1 ELSE 0
      tails == (IF t8 = 1 THEN <<[off |-> 16 * n16, w |-> 8]>> ELSE <<>>)
                 \o (IF t4 = 1 THEN <<[off |-> 16 * n16 + 8 * t8, w |-> 4]>> ELSE <<>>)
                 \o (IF t2 = 1 THEN <<[off |-> 16 * n16 + 8 * t8 + 4 * t4, w |-> 2]>> ELSE <<>>)
                 \o (IF t1 = 1 THEN <<[off |-> 16 * n16 + 8 * t8 + 4 * t4 + 2 * t2, w |-> 1]>>
                     ELSE <<>>)
      nc(k) == \E i \in (16 * (k - 1) + 1)..(16 * k) : ByteAnd(b[i], 255 - a[i]) # 0
      ne(c) == SubSeq(a, c.off + 1, c.off + c.w) # SubSeq(b, c.off + 1, c.off + c.w)
      rax == IF (\E k \in 1..n16 : nc(k)) \/ (\E k \in 1..Len(tails) : ne(tails[k]))
             THEN 1 ELSE 0
  IN  ~(rax # 0)

\* The entry points by name.
cmp_call(f, a, b) ==
  CASE f = "cmp::eq" -> cmp_eq(a, b)
    [] f = "bytes_eq_secure" -> bytes_eq_secure(a, b)
    [] f = "checked_bytes_eq_secure" -> checked_bytes_eq_secure(a, b)
    [] f = "eq_bytes_secure_impl" ->
         [kind |-> "bool", val |-> eq_bytes_secure_impl(a, b, Len(a)), reads |-> <<>>]

(***************************************************************************)
(* Secret<T> (lc-crypto-secret/src/secret.rs) and the routines of          *)
(* src/asm.rs it rests on.                                                 *)
(***************************************************************************)
\* write_bytes_explicit without the final one-byte store.
write_bytes_explicit_even(mem, val, len) ==
  [i \in 1..Len(mem) |-> IF i <= len - (len % 2) THEN val ELSE mem[i]]

\* asm::write_bytes_explicit, the x86_64 routine: 16-byte stores of the
\* splatted value while rcx >= 16, then at most one store of 8, 4, 2 and 1
\* bytes; mem is the memory from address a on.
write_bytes_explicit(mem, val, len) ==
  LET n16 == len \div 16
      r16 == len - 16 * n16
      t8 == IF r16 >= 8 THEN 1 ELSE 0
      r8 == r16 - 8 * t8
      t4 == IF r8 >= 4 THEN 1 ELSE 0
      r4 == r8 - 4 * t4
      t2 == IF r4 >= 2 THEN 1 ELSE 0
      r2 == r4 - 2 * t2
      t1 == IF r2 >= 1 THEN 1 ELSE 0
      stores == [k \in 1..n16 |-> [off |-> 16 * (k - 1), w |-> 16]]
                \o (IF t8 = 1 THEN <<[off |-> 16 * n16, w |-> 8]>> ELSE <<>>)
                \o (IF t4 = 1 THEN <<[off |-> 16 * n16 + 8 * t8, w |-> 4]>> ELSE <<>>)
                \o (IF t2 = 1 THEN <<[off |-> 16 * n16 + 8 * t8 + 4 * t4, w |-> 2]>> ELSE <<>>)
                \o (IF t1 = 1
                    THEN <<[off |-> 16 * n16 + 8 * t8 + 4 * t4 + 2 * t2, w |-> 1]>>
                    ELSE <<>>)
  IN  [i \in 1..Len(mem) |->
         IF \E k \in 1..Len(stores) : stores[k].off < i /\ i <= stores[k].off + stores[k].w
         THEN val ELSE mem[i]]

\* sbox_lookup that keeps the lowest byte of the selected quadword.
sbox_lookup_low(b, sbox) == sbox[8 * (b \div 8) + 1]

\* asm::sbox_lookup, the x86_64 routine: off starts as b >> 3 and the loop
\* runs 8 times; each pass loads the four quadwords at ptr, ptr+8, ptr+16,
\* ptr+24, keeps (cmove) the one whose number equals the low byte of off,
\* then subtracts 4 from off and adds 32 to ptr.  The byte returned is
\* (buf >> 8 * (b & 7)) as u8; a quadword is its 8 bytes, lowest first.
sbox_lookup(b, sbox) ==
  LET off == b \div 8
      hits == {p \in (0..7) \X (0..3) : (off - 4 * p[1]) % 256 = p[2]}
      last == CHOOSE p \in hits : \A q \in hits : 4 * q[1] + q[2] <= 4 * p[1] + p[2]
      buf == SubSeq(sbox, 32 * last[1] + 8 * last[2] + 1, 32 * last[1] + 8 * last[2] + 8)
  IN  buf[(b % 8) + 1]

\* impl_binary_trait! with the wrapping method in the Saturating impls too.
impl_binary_trait_wrapping(prim_ty, marker, wrapping_op, saturating_op, self, other) ==
  LET lo == IF prim_ty = "i8" THEN -128 ELSE 0
      exact == CASE wrapping_op = "wrapping_add" -> self + other
                 [] wrapping_op = "wrapping_sub" -> self - other
                 [] wrapping_op = "wrapping_mul" -> self * other
  IN  ((exact - lo) % 256) + lo

\* impl_binary_trait!: the operator of Secret<prim_ty>, Secret<Wrapping<prim_ty>>
\* (marker "Wrapping") and Secret<Saturating<prim_ty>> (marker "Saturating"),
\* given the primitive's wrapping and saturating methods it is built from.
impl_binary_trait(prim_ty, marker, wrapping_op, saturating_op, self, other) ==
  LET lo == IF prim_ty = "i8" THEN -128 ELSE 0
      hi == IF prim_ty = "i8" THEN 127 ELSE 255
      exact(op) == CASE op \in {"wrapping_add", "saturating_add"} -> self + other
                     [] op \in {"wrapping_sub", "saturating_sub"} -> self - other
                     [] op \in {"wrapping_mul", "saturating_mul"} -> self * other
      wrapping(x) == ((x - lo) % 256) + lo
      saturating(x) == IF x < lo THEN lo ELSE IF x > hi THEN hi ELSE x
  IN  IF marker = "Saturating" THEN saturating(exact(saturating_op))
      ELSE wrapping(exact(wrapping_op))

\* impl_secret_arith!: Add, Sub and Mul (and AddAssign, SubAssign, MulAssign).
impl_secret_arith(ty, marker, tr_name, self, other) ==
  CASE tr_name = "Add" ->
         impl_binary_trait(ty, marker, "wrapping_add", "saturating_add", self, other)
    [] tr_name = "Sub" ->
         impl_binary_trait(ty, marker, "wrapping_sub", "saturating_sub", self, other)
    [] tr_name = "Mul" ->
         impl_binary_trait(ty, marker, "wrapping_mul", "saturating_mul", self, other)

(***************************************************************************)
(* BaseArrayVec (src/array.rs), the operations not needed by the digests.  *)
(***************************************************************************)
\* BaseArrayVec::new
BaseArrayVec_new(LEN) == [inner |-> Zeroed(LEN), len |-> 0, panic |-> FALSE]

\* extend_from_slice that sets len before it checks the capacity.
BaseArrayVec_extend_from_slice_len(self, sl) ==
  IF self.panic THEN self
  ELSE IF self.len + Len(sl) > Len(self.inner)
  THEN [self EXCEPT !.panic = TRUE, !.len = self.len + Len(sl)]
  ELSE [self EXCEPT
          !.len = self.len + Len(sl),
          !.inner = [i \in 1..Len(self.inner) |->
                       IF self.len < i /\ i <= self.len + Len(sl)
                       THEN sl[i - self.len] ELSE self.inner[i]]]

\* BaseArrayVec::extend_from_slice
BaseArrayVec_extend_from_slice(self, sl) ==
  IF self.panic THEN self
  ELSE IF self.len + Len(sl) > Len(self.inner) THEN [self EXCEPT !.panic = TRUE]
  ELSE [self EXCEPT
          !.len = self.len + Len(sl),
          !.inner = [i \in 1..Len(self.inner) |->
                       IF self.len < i /\ i <= self.len + Len(sl)
                       THEN sl[i - self.len] ELSE self.inner[i]]]

(***************************************************************************)
(* The SHA-512/t constructor (lc-crypto-digest/src/raw/sha2.rs).           *)
(***************************************************************************)
\* Sha512::new_modified: the SHA-512 IV with every word XORed with
\* 0xa5a5a5a5a5a5a5a5.
Sha2_new_modified ==
  Sha2_new_with_iv([j \in 1..8 |-> BitXor(IV_Sha512[j], <<42405, 42405, 42405, 42405>>)])

\* Sha2::<u64, N, O>::new_512_t: msg is &buf[..len], the bytes handed to
\* raw_update_final on the modified digest; state the words new_with_iv_bytes
\* makes of modified.finish().  The digits go through
\* skip_while(|v| *v != 0), which drops elements up to the first that is 0.
Sha2_new_512_t(N) ==
  LET n0       == (N % 10) + 48
      n1       == ((N \div 10) % 10) + 48
      n2       == ((N \div 10) % 10) + 48
      digits   == <<n2, n1, n0>>
      zeros    == {i \in 1..3 : digits[i] = 0}
      kept     == IF zeros = {} THEN <<>>
                  ELSE SubSeq(digits, CHOOSE i \in zeros : \A k \in zeros : i <= k, 3)
      msg      == <<83, 72, 65, 45, 53, 49, 50, 47>> \o kept
  IN  CHOOSE o \in
        {IF modified.panic THEN [msg |-> msg, panic |-> TRUE, state |-> <<>>]
         ELSE [msg   |-> msg,
               panic |-> FALSE,
               state |-> LET iv == Sha2_finish(modified, 512, 64).output
                         IN  [j \in 1..8 |-> from_be_bytes(SubSeq(iv, 8 * j - 7, 8 * j))]]
         : modified \in {Sha2_raw_update_final("u64", Sha2_new_modified, msg)}} : TRUE

(***************************************************************************)
(* The shift operators of Secret<integer>                                  *)
(* (lc-crypto-secret/src/secret.rs), for the 8-bit types.  op is the       *)
(* method: shl, shr, shl_assign or shr_assign; the result is the value     *)
(* returned or the value stored by set.                                    *)
(***************************************************************************)
\* impl_secret_shift!: Shl<u32>, Shr<u32>, ShlAssign<u32>, ShrAssign<u32>.
\* << keeps the low 8 bits; >> is logical on u8 and arithmetic on i8.
impl_secret_shift(ty, op, self, val) ==
  LET lo == IF ty = "i8" THEN -128 ELSE 0
      shl == (((self * (2 ^ val)) - lo) % 256) + lo
      shr == self \div (2 ^ val)
  IN  CASE op = "shl" -> shl
        [] op = "shr" -> shr
        [] op = "shl_assign" -> shl
        [] op = "shr_assign" -> shr

\* impl_secret_shift_self!: Shl<$ty>, Shr<$ty>, ShlAssign<$ty>,
\* ShrAssign<$ty>.  The body of shr is self.into_inner_nonsecret() << val.
impl_secret_shift_self(ty, op, self, val) ==
  LET lo == IF ty = "i8" THEN -128 ELSE 0
      shl == (((self * (2 ^ val)) - lo) % 256) + lo
      shr == self \div (2 ^ val)
  IN  CASE op = "shl" -> shl
        [] op = "shr" -> shl
        [] op = "shl_assign" -> shl
        [] op = "shr_assign" -> shr

(***************************************************************************)
(* SpecPrim: the primitives under the digests, each called on its own      *)
(* object.  alg names the kind of object:                                  *)
(*   "cmp"          the constant-time comparisons; dg is the last result   *)
(*   "cmp::asm"     eq_bytes_secure_impl, called on two strings of one     *)
(*                  length; dg is the last result                          *)
(*   "Secret<[u8]>" a secret payload of any size; dg.mem is its memory,    *)
(*                  input the payload it was created with                  *)
(*   "Secret<int>"  a secret 8-bit integer dg.val of type dg.ty, plain or  *)
(*                  under the marker dg.marker                             *)
(*   "ArrayVec"     a fixed-capacity vector over a plain byte array        *)
(*   "ByteArray"    a plain byte array, built by ByteArray::extend         *)
(*   "[[W; 5]; 5]"  a Keccak state dg.arr, taken through single steps of    *)
(*                  the round                                              *)
(*   "Sha2<u64, N>" a SHA-512/t digest type; dg.N is its BITS until        *)
(*                  new_512_t is called, dg is what the call made after    *)
(***************************************************************************)
\* The longest payload and the longest compared string.
MaxLen == 33

\* The capacity of the vector and the length N of the byte array.
ArrayLen == 4

\* The pairs compared for a first string of n bytes: the string with itself,
\* with every string that differs from it in one byte, and with a string one
\* byte longer and one byte shorter.
CmpPairs(n) ==
  LET a == Msg(1, n)
  IN  {<<a, a>>}
      \cup {<<a, [a EXCEPT ![p] = (a[p] + d) % 256]>> : p \in 1..n, d \in {1, 128}}
      \cup {<<a, Msg(1, m)>> : m \in {n + 1} \cup (IF n > 0 THEN {n - 1} ELSE {})}

\* The values of an 8-bit integer type the operators are tried on.
IntValues(ty, marker) ==
  IF ty = "i8" THEN {-128, -127, -2, -1, 0, 1, 2, 127}
  ELSE IF marker = "" THEN 0..255
  ELSE {0, 1, 2, 127, 128, 254, 255}

InitPrim ==
  /\ alg \in {"cmp", "cmp::asm", "Secret<[u8]>", "Secret<int>", "ArrayVec", "ByteArray", "Sha2<u64, N>",
              "[[W; 5]; 5]"}
  /\ dg \in CASE alg \in {"cmp", "cmp::asm"} -> {[kind |-> "none", val |-> FALSE, reads |-> <<>>]}
              [] alg = "Secret<[u8]>" ->
                   {[mem |-> Msg(2, n), dropped |-> FALSE] : n \in 0..MaxLen}
                   \cup {[mem |-> [i \in 1..n |-> 255], dropped |-> FALSE] : n \in 1..MaxLen}
              [] alg = "Secret<int>" ->
                   UNION {{[ty |-> ty, marker |-> marker, val |-> v] : v \in IntValues(ty, marker)}
                          : ty \in {"u8", "i8"}, marker \in {"", "Wrapping", "Saturating"}}
              [] alg = "ArrayVec" -> {BaseArrayVec_new(ArrayLen)}
              [] alg = "ByteArray" -> {[ok |-> TRUE, val |-> Zeroed(ArrayLen)]}
              [] alg = "[[W; 5]; 5]" ->
                   {[arr |-> [n \in 1..25 |-> from_le_bytes(SubSeq(Msg(k, 200), 8 * n - 7, 8 * n))]]
                    : k \in {1, 2}}
              [] alg = "Sha2<u64, N>" -> {[N |-> t] : t \in {1, 9, 10, 99, 100, 224, 256, 511}}
  /\ calls = <<>>
  /\ outs = <<>>
  /\ input = IF alg = "Secret<[u8]>" THEN dg.mem ELSE <<>>
  /\ drv = Idle

\* cmp::eq(a, b), bytes_eq_secure(a, b) or checked_bytes_eq_secure(a, b); or
\* eq_bytes_secure_impl(a.as_ptr(), b.as_ptr(), a.len()), on strings of one
\* length
Compare(f, a, b) ==
  /\ alg = IF f = "eq_bytes_secure_impl" THEN "cmp::asm" ELSE "cmp"
  /\ f = "eq_bytes_secure_impl" => Len(a) = Len(b)
  /\ calls = <<>>
  /\ dg' = cmp_call(f, a, b)
  /\ calls' = <<Call(f, <<a, b>>)>>
  /\ UNCHANGED <<alg, outs, input, drv>>

\* Secret::write_bytes(val): size_of_val(self) bytes from the payload's address.
SecretWriteBytes(val) ==
  /\ alg = "Secret<[u8]>"
  /\ ~dg.dropped
  /\ Len(calls) < MaxCalls
  /\ dg' = [dg EXCEPT !.mem = write_bytes_explicit(dg.mem, val, Len(dg.mem))]
  /\ calls' = Append(calls, Call("write_bytes", val))
  /\ UNCHANGED <<alg, outs, input, drv>>

\* Drop for Secret<T>: self.write_bytes(0)
SecretDrop ==
  /\ alg = "Secret<[u8]>"
  /\ ~dg.dropped
  /\ dg' = [mem |-> write_bytes_explicit(dg.mem, 0, Len(dg.mem)), dropped |-> TRUE]
  /\ calls' = Append(calls, Call("drop", <<>>))
  /\ UNCHANGED <<alg, outs, input, drv>>

\* Secret<u8>::sbox_lookup(sbox)
SecretSboxLookup(sbox) ==
  /\ alg = "Secret<int>"
  /\ dg.ty = "u8" /\ dg.marker = ""
  /\ calls = <<>>
  /\ outs' = <<sbox_lookup(dg.val, sbox)>>
  /\ calls' = <<Call("sbox_lookup", sbox)>>
  /\ UNCHANGED <<alg, dg, input, drv>>

\* self + other, self - other, self * other, and self += other, self -= other,
\* self *= other, on a secret integer.
SecretArith(tr_name, assign, other) ==
  /\ alg = "Secret<int>"
  /\ calls = <<>>
  /\ other \in IntValues(dg.ty, "Wrapping")
  /\ \E r \in {impl_secret_arith(dg.ty, dg.marker, tr_name, dg.val, other)} :
       IF assign THEN dg' = [dg EXCEPT !.val = r] /\ outs' = outs
       ELSE dg' = dg /\ outs' = <<r>>
  /\ calls' = <<Call(tr_name, [assign |-> assign, self |-> dg.val, other |-> other])>>
  /\ UNCHANGED <<alg, input, drv>>

\* self << val, self >> val, self <<= val and self >>= val on a plain secret
\* integer, the amount val below the width and of type u32 (rhs = "u32") or
\* of the payload's own type (rhs = "Self").
SecretShift(op, rhs, val) ==
  /\ alg = "Secret<int>"
  /\ dg.marker = ""
  /\ calls = <<>>
  /\ \E r \in {IF rhs = "u32" THEN impl_secret_shift(dg.ty, op, dg.val, val)
               ELSE impl_secret_shift_self(dg.ty, op, dg.val, val)} :
       IF op \in {"shl_assign", "shr_assign"} THEN dg' = [dg EXCEPT !.val = r] /\ outs' = outs
       ELSE dg' = dg /\ outs' = <<r>>
  /\ calls' = <<Call(op, [rhs |-> rhs, self |-> dg.val, val |-> val])>>
  /\ UNCHANGED <<alg, input, drv>>

\* The operations of the vector: each is called on a vector that has not
\* panicked and has not been consumed by into_inner.
\* ArrayVec::from_slice(sl), in place of the vector held so far
VecFromSlice(sl) ==
  /\ alg = "ArrayVec"
  /\ ~dg.panic
  /\ Len(calls) < MaxCalls
  /\ IF calls = <<>> THEN TRUE ELSE calls[Len(calls)].op # "into_inner"
  /\ dg' = BaseArrayVec_from_slice(ArrayLen, sl, "plain")
  /\ calls' = Append(calls, Call("from_slice", sl))
  /\ UNCHANGED <<alg, outs, input, drv>>

\* BaseArrayVec::push(val)
VecPush(val) ==
  /\ alg = "ArrayVec"
  /\ ~dg.panic
  /\ Len(calls) < MaxCalls
  /\ IF calls = <<>> THEN TRUE ELSE calls[Len(calls)].op # "into_inner"
  /\ dg' = BaseArrayVec_push(dg, val)
  /\ calls' = Append(calls, Call("push", val))
  /\ UNCHANGED <<alg, outs, input, drv>>

\* BaseArrayVec::extend_from_slice(sl)
VecExtendFromSlice(sl) ==
  /\ alg = "ArrayVec"
  /\ ~dg.panic
  /\ Len(calls) < MaxCalls
  /\ IF calls = <<>> THEN TRUE ELSE calls[Len(calls)].op # "into_inner"
  /\ dg' = BaseArrayVec_extend_from_slice(dg, sl)
  /\ calls' = Append(calls, Call("extend_from_slice", sl))
  /\ UNCHANGED <<alg, outs, input, drv>>

\* BaseArrayVec::zero_pad
VecZeroPad ==
  /\ alg = "ArrayVec"
  /\ ~dg.panic
  /\ Len(calls) < MaxCalls
  /\ IF calls = <<>> THEN TRUE ELSE calls[Len(calls)].op # "into_inner"
  /\ dg' = BaseArrayVec_zero_pad(dg)
  /\ calls' = Append(calls, Call("zero_pad", <<>>))
  /\ UNCHANGED <<alg, outs, input, drv>>

\* BaseArrayVec::into_inner, which consumes the vector
VecIntoInner ==
  /\ alg = "ArrayVec"
  /\ ~dg.panic
  /\ Len(calls) < MaxCalls
  /\ IF calls = <<>> THEN TRUE ELSE calls[Len(calls)].op # "into_inner"
  /\ dg' = BaseArrayVec_zero_pad(dg)
  /\ outs' = Append(outs, BaseArrayVec_into_inner(dg))
  /\ calls' = Append(calls, Call("into_inner", <<>>))
  /\ UNCHANGED <<alg, input, drv>>

\* <[u8; N] as ByteArray>::extend(sl)
ByteArrayExtend(sl) ==
  /\ alg = "ByteArray"
  /\ calls = <<>>
  /\ dg' = ByteArray_extend(ArrayLen, sl)
  /\ calls' = <<Call("extend", sl)>>
  /\ UNCHANGED <<alg, outs, input, drv>>

\* Sha2::<u64, N, O>::new_512_t()
New512t ==
  /\ alg = "Sha2<u64, N>"
  /\ calls = <<>>
  /\ dg' = Sha2_new_512_t(dg.N)
  /\ calls' = <<Call("new_512_t", dg.N)>>
  /\ UNCHANGED <<alg, outs, input, drv>>

\* One step of permute_round, applied to the state: permute_theta,
\* permute_rho, permute_pi or permute_chi.
PermuteStep(step) ==
  /\ alg = "[[W; 5]; 5]"
  /\ Len(calls) < MaxCalls
  /\ dg' = [arr |-> CASE step = "permute_theta" -> permute_theta(dg.arr)
                      [] step = "permute_rho" -> permute_rho(dg.arr)
                      [] step = "permute_pi" -> permute_pi(dg.arr)
                      [] step = "permute_chi" -> permute_chi(dg.arr)]
  /\ calls' = Append(calls, Call(step, dg.arr))
  /\ UNCHANGED <<alg, outs, input, drv>>

NextPrim ==
  \/ \E f \in {"cmp::eq", "bytes_eq_secure", "checked_bytes_eq_secure",
               "eq_bytes_secure_impl"}, n \in 0..MaxLen :
       \E p \in CmpPairs(n) : Compare(f, p[1], p[2])
  \/ \E val \in {0, 255} : SecretWriteBytes(val)
  \/ SecretDrop
  \/ \E sbox \in {[i \in 1..256 |-> (7 * i + 6) % 256], [i \in 1..256 |-> 256 - i]} :
       SecretSboxLookup(sbox)
  \/ \E tr_name \in {"Add", "Sub", "Mul"}, assign \in BOOLEAN :
       \E other \in IntValues("i8", "") \cup IntValues("u8", "Wrapping") :
         SecretArith(tr_name, assign, other)
  \/ \E op \in {"shl", "shr", "shl_assign", "shr_assign"}, rhs \in {"u32", "Self"},
          val \in 0..7 :
       SecretShift(op, rhs, val)
  \/ \E sl \in {Msg(1, n) : n \in 0..(ArrayLen + 1)} : VecFromSlice(sl)
  \/ \E val \in {0, 9, 255} : VecPush(val)
  \/ \E sl \in {Msg(1, n) : n \in 0..(ArrayLen + 1)} : VecExtendFromSlice(sl)
  \/ VecZeroPad
  \/ VecIntoInner
  \/ \E sl \in {Msg(1, n) : n \in 0..(ArrayLen + 1)} : ByteArrayExtend(sl)
  \/ New512t
  \/ \E step \in {"permute_theta", "permute_rho", "permute_pi", "permute_chi"} : PermuteStep(step)

SpecPrim == InitPrim /\ [][NextPrim]_vars

(***************************************************************************)
(* The properties of the primitives.                                       *)
(***************************************************************************)
\* C11: for two byte strings of equal length, whatever the length, each
\* constant-time comparison returns a boolean, and it returns true exactly
\* when the two strings hold the same byte at every index.
C11_Equality ==
  (alg = "cmp" /\ calls # <<>> /\ Len(calls[1].arg[1]) = Len(calls[1].arg[2])) =>
    /\ dg.kind \in {"bool", "Ok"}
    /\ dg.val = (\A i \in 1..Len(calls[1].arg[1]) : calls[1].arg[1][i] = calls[1].arg[2][i])

\* C11, the case reached: two strings of 15 bytes that differ in their first
\* byte only, compared by bytes_eq_secure, which returned false.
C11_Witness ==
  /\ alg = "cmp"
  /\ calls # <<>>
  /\ calls[1].op = "bytes_eq_secure"
  /\ Len(calls[1].arg[1]) = 15 /\ Len(calls[1].arg[2]) = 15
  /\ calls[1].arg[1][1] # calls[1].arg[2][1]
  /\ \A i \in 2..15 : calls[1].arg[1][i] = calls[1].arg[2][i]
  /\ dg.kind = "bool" /\ dg.val = FALSE

\* C12: for two byte strings of unequal length no comparison returns a
\* boolean: checked_bytes_eq_secure returns Err, bytes_eq_secure and cmp::eq
\* panic, and no byte of either string has been read.
C12_UnequalLengths ==
  (alg = "cmp" /\ calls # <<>> /\ Len(calls[1].arg[1]) # Len(calls[1].arg[2])) =>
    /\ dg.kind = IF calls[1].op = "checked_bytes_eq_secure" THEN "Err" ELSE "panic"
    /\ dg.reads = <<>>

\* C12, the case reached: checked_bytes_eq_secure on a string of 4 bytes and
\* its first 3 bytes, which returned Err.
C12_Witness ==
  /\ alg = "cmp"
  /\ calls # <<>>
  /\ calls[1].op = "checked_bytes_eq_secure"
  /\ Len(calls[1].arg[1]) = 4 /\ Len(calls[1].arg[2]) = 3
  /\ calls[1].arg[2] = SubSeq(calls[1].arg[1], 1, 3)
  /\ dg.kind = "Err"

\* C13: for a fixed length n, a comparison makes the same memory reads, in
\* the same order, whatever the two n-byte strings are and wherever they
\* first differ, and together the reads cover all n bytes of both strings.
C13_NoShortCircuit ==
  (alg = "cmp" /\ calls # <<>> /\ Len(calls[1].arg[1]) = Len(calls[1].arg[2])) =>
    /\ \A p \in CmpPairs(Len(calls[1].arg[1])) :
         Len(p[2]) = Len(p[1]) => cmp_call(calls[1].op, p[1], p[2]).reads = dg.reads
    /\ \A i \in 1..Len(calls[1].arg[1]), s \in {"a", "b"} :
         \E k \in 1..Len(dg.reads) :
           /\ dg.reads[k].of = s
           /\ dg.reads[k].off < i /\ i <= dg.reads[k].off + dg.reads[k].w

\* C13, the case reached: cmp::eq on two strings of 13 bytes that differ in
\* their first byte, after which all 26 bytes have been read.
C13_Witness ==
  /\ alg = "cmp"
  /\ calls # <<>>
  /\ calls[1].op = "cmp::eq"
  /\ Len(calls[1].arg[1]) = 13 /\ Len(calls[1].arg[2]) = 13
  /\ calls[1].arg[1][1] # calls[1].arg[2][1]
  /\ Len(dg.reads) = 26

\* C14: once a Secret has been dropped, its payload still has its size and
\* every byte of it is zero, whatever the size and the content were.
C14_DropZeroes ==
  (alg = "Secret<[u8]>" /\ dg.dropped) =>
    /\ Len(dg.mem) = Len(input)
    /\ \A i \in 1..Len(dg.mem) : dg.mem[i] = 0

\* C14, the case reached: a payload of 31 bytes, none of them zero, has been
\* dropped.
C14_Witness ==
  /\ alg = "Secret<[u8]>"
  /\ dg.dropped
  /\ calls = <<Call("drop", <<>>)>>
  /\ Len(input) = 31
  /\ \A i \in 1..31 : input[i] # 0

\* C15: for every index b in 0..255 and every table of 256 bytes,
\* sbox_lookup(b, table) returns table[b].
C15_SboxLookup ==
  (alg = "Secret<int>" /\ calls # <<>> /\ calls[1].op = "sbox_lookup") =>
    outs = <<calls[1].arg[dg.val + 1]>>

\* C15, the case reached: the lookup of b = 203, which is neither the first
\* byte of its quadword nor in the first quadword of its pass.
C15_Witness ==
  /\ alg = "Secret<int>"
  /\ calls # <<>>
  /\ calls[1].op = "sbox_lookup"
  /\ dg.val = 203
  /\ outs = <<calls[1].arg[204]>>

\* C16: on a secret 8-bit integer, +, - and * and their assigning forms give
\* the exact result reduced modulo 2^8 into the range of the type; under the
\* Saturating marker they give the exact result clamped to that range.
C16_Arith ==
  (alg = "Secret<int>" /\ calls # <<>> /\ calls[1].op \in {"Add", "Sub", "Mul"}) =>
    LET a == calls[1].arg.self
        b == calls[1].arg.other
        exact == CASE calls[1].op = "Add" -> a + b
                   [] calls[1].op = "Sub" -> a - b
                   [] calls[1].op = "Mul" -> a * b
        lo == IF dg.ty = "i8" THEN -128 ELSE 0
        hi == IF dg.ty = "i8" THEN 127 ELSE 255
        r == IF calls[1].arg.assign THEN dg.val ELSE outs[1]
    IN  /\ r \in lo..hi
        /\ IF dg.marker = "Saturating"
           THEN r = (IF exact < lo THEN lo ELSE IF exact > hi THEN hi ELSE exact)
           ELSE \E q \in -255..255 : r = exact + 256 * q

\* C16, the case reached: -128 * -1 on a saturating secret i8, which gave 127.
C16_Witness ==
  /\ alg = "Secret<int>"
  /\ calls # <<>>
  /\ calls[1].op = "Mul"
  /\ dg.ty = "i8" /\ dg.marker = "Saturating"
  /\ calls[1].arg.self = -128 /\ calls[1].arg.other = -1
  /\ ~calls[1].arg.assign
  /\ outs = <<127>>

\* C17: whatever calls of from_slice, push, extend_from_slice and zero_pad
\* have been made on a fixed-capacity vector since new, its len is between 0
\* and the capacity and every byte of its block from index len on is zero.
C17_VecInvariant ==
  alg = "ArrayVec" =>
    /\ Len(dg.inner) = ArrayLen
    /\ 0 <= dg.len /\ dg.len <= ArrayLen
    /\ \A i \in (dg.len + 1)..ArrayLen : dg.inner[i] = 0

\* C17, the case reached: a vector built by from_slice and grown by a push of
\* a non-zero byte, with room left.
C17_Witness ==
  /\ alg = "ArrayVec"
  /\ Len(calls) = 2
  /\ calls[1].op = "from_slice" /\ Len(calls[1].arg) = 2
  /\ calls[2] = Call("push", 255)
  /\ dg.len = 3 /\ dg.inner[3] = 255 /\ dg.inner[4] = 0

\* C18: a push on a full vector, and an extend_from_slice that would exceed
\* the capacity, panic and leave len and the stored bytes as they were; a push
\* on a vector that is not full stores the byte at index len and adds 1 to len.
C18_PushExtend ==
  [][alg = "ArrayVec" =>
       /\ calls'[Len(calls')].op = "push" =>
            IF dg.len = ArrayLen
            THEN dg'.panic /\ dg'.len = dg.len /\ dg'.inner = dg.inner
            ELSE /\ ~dg'.panic
                 /\ dg'.len = dg.len + 1
                 /\ dg'.inner = [dg.inner EXCEPT ![dg.len + 1] = calls'[Len(calls')].arg]
       /\ (/\ calls'[Len(calls')].op = "extend_from_slice"
           /\ dg.len + Len(calls'[Len(calls')].arg) > ArrayLen) =>
            dg'.panic /\ dg'.len = dg.len /\ dg'.inner = dg.inner]_vars

\* C18, the case reached: an extend_from_slice of 3 bytes on a vector that
\* holds 2 of its 4 bytes has panicked.
C18_Witness ==
  /\ alg = "ArrayVec"
  /\ Len(calls) = 2
  /\ calls[1].op = "from_slice" /\ Len(calls[1].arg) = 2
  /\ calls[2].op = "extend_from_slice" /\ Len(calls[2].arg) = 3
  /\ dg.panic
  /\ dg.len = 2

\* C19: on a new vector, extend_from_slice(s) with |s| at most the capacity
\* followed by into_inner gives a full block that starts with the bytes of s
\* and is zero from there on.
C19_ExtendIntoInner ==
  (/\ alg = "ArrayVec"
   /\ Len(calls) = 2
   /\ calls[1].op = "extend_from_slice"
   /\ Len(calls[1].arg) <= ArrayLen
   /\ calls[2].op = "into_inner") =>
    outs = <<calls[1].arg \o Zeroed(ArrayLen - Len(calls[1].arg))>>

\* C19, the case reached: extend_from_slice of 2 bytes on a new vector of
\* capacity 4 or more, then into_inner.
C19_Witness ==
  /\ alg = "ArrayVec"
  /\ Len(calls) = 2
  /\ calls[1].op = "extend_from_slice" /\ Len(calls[1].arg) = 2
  /\ calls[2].op = "into_inner"
  /\ Len(outs) = 1 /\ Len(outs[1]) = ArrayLen

\* C20: for every slice s of at most N bytes, the empty slice included,
\* ByteArray::extend(s) returns the block of N bytes that starts with the
\* bytes of s and is zero from there on.
C20_Extend ==
  (alg = "ByteArray" /\ calls # <<>> /\ Len(calls[1].arg) <= ArrayLen) =>
    /\ dg.ok
    /\ dg.val = calls[1].arg \o Zeroed(ArrayLen - Len(calls[1].arg))

\* C21: for every nonstandard t, new_512_t absorbs into SHA-512 started from
\* the modified IV exactly the bytes "SHA-512/" followed by the decimal digits
\* of t, most significant first and without leading zeros, and takes the eight
\* state words that result as the IV.
C21_New512t ==
  (alg = "Sha2<u64, N>" /\ calls # <<>>) =>
    LET t   == calls[1].arg
        dec == (IF t >= 100 THEN <<48 + (t \div 100)>> ELSE <<>>)
                 \o (IF t >= 10 THEN <<48 + ((t \div 10) % 10)>> ELSE <<>>)
                 \o <<48 + (t % 10)>>
        M   == <<83, 72, 65, 45, 53, 49, 50, 47>> \o dec
    IN  /\ dg.msg = M
        /\ ~dg.panic
        /\ dg.state = RefAbsorb("Sha512", Sha2_new_modified,
                                BlocksOf(FipsPad(M, 128, 16), 128)).state

\* C22: for every Keccak parameterization PREPAD_LENGTH is the number of
\* suffix bits in PREPAD_BITS (2 for SHA-3, 2 for RawSHAKE, 4 for SHAKE), so
\* the byte pad_sha3 puts after the tail is the suffix bits followed by a
\* single 1 bit.
C22_Prepad ==
  (/\ alg \in KeccackAlgs
   /\ calls # <<>>
   /\ LastCall.op = "raw_update_final"
   /\ Len(LastCall.arg) + 1 < KeccackSpec(alg).Rate) =>
    LET nbits == IF alg = "Shake128" THEN 4 ELSE 2
    IN  /\ KeccackSpec(alg).PREPAD_LENGTH = nbits
        /\ ~dg.panic
        /\ dg.absorbed[Len(dg.absorbed)][Len(LastCall.arg) + 1]
             = KeccackSpec(alg).PREPAD_BITS + 2 ^ nbits

\* C23: permute_theta maps the lane at row i, column j to
\* in[i][j] XOR C[(j+4) mod 5] XOR rotate_left(C[(j+1) mod 5], 1), C[x] being
\* the XOR of the five lanes of column x of the input state.
C23_Theta ==
  (alg = "[[W; 5]; 5]" /\ calls # <<>> /\ LastCall.op = "permute_theta") =>
    LET in   == LastCall.arg
        C(x) == BitXor(BitXor(BitXor(BitXor(in[Lane(0, x)], in[Lane(1, x)]),
                                     in[Lane(2, x)]), in[Lane(3, x)]), in[Lane(4, x)])
    IN  \A i \in 0..4, j \in 0..4 :
          dg.arr[Lane(i, j)]
            = BitXor(BitXor(in[Lane(i, j)], C((j + 4) % 5)), rotate_left(C((j + 1) % 5), 1))

\* C24: permute_chi sets every lane to
\* in[i][j] XOR ((NOT in[i][(j+1) mod 5]) AND in[i][(j+2) mod 5]), for all
\* five positions of every row, the three operands being lanes of the step's
\* input state.
C24_Chi ==
  (alg = "[[W; 5]; 5]" /\ calls # <<>> /\ LastCall.op = "permute_chi") =>
    LET in == LastCall.arg
    IN  \A i \in 0..4, j \in 0..4 :
          dg.arr[Lane(i, j)]
            = BitXor(in[Lane(i, j)],
                     BitAnd(Not(in[Lane(i, (j + 1) % 5)]), in[Lane(i, (j + 2) % 5)]))

\* C25: the legacy Sha1 and Sha32 do_final, called with a tail of L bytes,
\* 0 <= L <= 64, compress the tail, the byte 0x80 right after it, zero bytes
\* and the 8-byte big-endian bit length in the last 8 bytes; the 0x80 byte is
\* not overwritten by the length, and there is a second block exactly when
\* tail, 0x80 and length do not fit in one block of 64 bytes.  Stated for a
\* do_final that follows new, where the bit length is 8 * L.
C25_LegacyPadding ==
  (/\ alg \in {"Sha1", "Sha32<256>"}
   /\ Len(calls) = 2
   /\ calls[1].op = "new"
   /\ calls[2].op = "do_final") =>
    /\ ~dg.panic
    /\ Concat(dg.absorbed) = FipsPad(calls[2].arg, 64, 8)

\* C26: the raw SHA-1 engine's raw_update completes all 80 rounds of a block
\* with every access to its 16-word schedule array in bounds, the word of
\* round t >= 16 being rotate_left(W[t-3] XOR W[t-8] XOR W[t-14] XOR W[t-16], 1):
\* after raw_update(block) on a new engine nothing has panicked and the state
\* is the SHA-1 compression of the block under the fully expanded schedule.
C26_RawSha1Rounds ==
  (alg = "raw::Sha1" /\ Len(calls) = 1 /\ calls[1].op = "raw_update") =>
    /\ ~dg.panic
    /\ dg.state = Sha1_update(Sha1_new, calls[1].arg).h

RECURSIVE ExpandedSchedule(_, _, _)
\* The standard message schedule W_0 .. W_(n-1) grown from its first sixteen
\* words w (W_t at index t + 1):
\* W_t = sigma1(W_(t-2)) + W_(t-7) + sigma0(W_(t-15)) + W_(t-16).
ExpandedSchedule(W, w, n) ==
  IF Len(w) >= n THEN w
  ELSE CHOOSE o \in
         {ExpandedSchedule(W, x, n)
          : x \in {LET t == Len(w) + 1
                       s == sigma(W, w[t - 15], w[t - 2])
                   IN  Append(w, wrapping_add(wrapping_add(wrapping_add(w[t - 16], s[1]),
                                                           w[t - 7]), s[2]))}} : TRUE

RECURSIVE RingFeeds(_, _, _, _)
\* From round i on, with the ring and registers r at the start of round i,
\* every round of Sha2::raw_update finds the word std[i + 1] in slot i & 15.
RingFeeds(W, r, i, std) ==
  IF i >= Len(std) THEN TRUE
  ELSE IF r.w[(i % 16) + 1] # std[i + 1] THEN FALSE
  ELSE CHOOSE o \in
         {RingFeeds(W, n, i + 1, std)
          : n \in {Sha2_round(W, r, i, ROUND_CONSTANTS(W)[i + 1])}} : TRUE

\* C27: in Sha2::raw_update, at the start of every round i (64 rounds for
\* 32-bit words, 80 for 64-bit words) ring slot w[i mod 16] holds the word W_i
\* of the standard message schedule of the block; for 32-bit words these are
\* the words of the fully expanded schedule of the legacy do_sha32_block, and
\* the two compressions give the same state.
C27_Ring ==
  (alg \in Sha2Algs /\ calls # <<>> /\ LastCall.op = "raw_update" /\ ~dg.panic) =>
    LET W     == Sha2Type(alg).W
        block == LastCall.arg
        w0    == Sha2_load(W, block)
    IN  /\ RingFeeds(W, [w |-> w0, v |-> dg.state], 0,
                     ExpandedSchedule(W, w0, Len(ROUND_CONSTANTS(W))))
        /\ W = "u32" =>
             /\ ExpandedSchedule(W, w0, 64) = do_sha32_block_w(w0, 16, 64)
             /\ Sha2_raw_update(W, dg, block).state = do_sha32_block(block, dg.state)

\* C27, the case reached: a 128-byte block and then a second one have gone
\* through the 80 rounds of the 64-bit engine.
C27_Witness ==
  /\ alg = "Sha512"
  /\ Len(calls) = 2
  /\ calls[1].op = "raw_update" /\ calls[2].op = "raw_update"
  /\ Len(calls[2].arg) = 128
  /\ ~dg.panic
  /\ Len(dg.absorbed) = 2

\* C28: in eq_bytes_secure_impl, for every len >= 16, the 16-byte loop marks
\* the strings unequal whenever two 16-byte chunks differ in any bit, also
\* when the set bits of one chunk are a subset of the other's, so the function
\* returns true exactly when all len bytes match.
C28_VectorLoop ==
  (alg = "cmp::asm" /\ calls # <<>> /\ Len(calls[1].arg[1]) >= 16) =>
    dg.val = (calls[1].arg[1] = calls[1].arg[2])

\* C29: for a secret integer and a shift amount n below the bit width,
\* secret >> n returns the payload shifted right by n bits, the value that
\* secret >>= n stores, both for n of type u32 and for n of the payload's own
\* type.
C29_ShiftRight ==
  (alg = "Secret<int>" /\ calls # <<>> /\ calls[1].op \in {"shr", "shr_assign"}) =>
    LET expected == calls[1].arg.self \div (2 ^ calls[1].arg.val)
    IN  IF calls[1].op = "shr" THEN outs = <<expected>> ELSE dg.val = expected

\* C30: permute_rho applies its offsets under the lane indexing of
\* absorption, permute_theta and permute_pi (first index the row, second the
\* column): the lane at row 0, column 1 is rotated left by 1 and the lane at
\* row 1, column 0 by 36, and every lane [i][j] by the entry in row i, column
\* j of the table in the comment above TBL, modulo the lane width.
C30_Rho ==
  (alg = "[[W; 5]; 5]" /\ calls # <<>> /\ LastCall.op = "permute_rho") =>
    LET in  == LastCall.arg
        tbl == << <<0, 1, 190, 28, 91>>,
                  <<36, 300, 6, 55, 276>>,
                  <<3, 10, 171, 153, 231>>,
                  <<105, 45, 15, 21, 136>>,
                  <<210, 66, 253, 120, 78>> >>
    IN  /\ dg.arr[Lane(0, 1)] = rotate_left(in[Lane(0, 1)], 1)
        /\ dg.arr[Lane(1, 0)] = rotate_left(in[Lane(1, 0)], 36)
        /\ \A i \in 0..4, j \in 0..4 :
             dg.arr[Lane(i, j)] = rotate_left(in[Lane(i, j)], tbl[i + 1][j + 1] % 64)

====
